---- MODULE Spec2Model ----
(***************************************************************************)
(* Focus Guard (llmblocker): the background service's page-analysis flow.  *)
(*                                                                         *)
(*   BackgroundService.handlePageAnalysis   build-chrome/.../background.js *)
(*   LLMClient.analyzePageContent           build-firefox/.../llm-client.js*)
(*   Utils (rate limiter, parser, cache key) build-chrome/.../utils.js     *)
(*   StorageManager, OptionsController      src/shared/storage.js          *)
(*                                                                         *)
(* Every async handler is cut at its awaits: one action per stretch of     *)
(* code that runs without yielding to the event loop.  Strings that the    *)
(* code inspects (provider responses, cache keys) are sequences of         *)
(* UTF-16 code units.  Times are milliseconds, as Date.now() gives.         *)
(***************************************************************************)
EXTENDS Integers, Sequences, FiniteSets, TLC

(***************************************************************************)
(* Bounds of the model.                                                    *)
(***************************************************************************)
NumProcs == 3          \* handlePageAnalysis invocations alive at once
StartTime == 100000    \* Date.now() when the service starts
FlowWidth == 1         \* Spec: handlePageAnalysis invocations alive at once
FlowTriggers == 2      \* Spec: ANALYZE_PAGE messages in one behaviour
FlowTicks == 2         \* Spec: clock advances in one behaviour
FlowFaults == 1        \* Spec: storage operations that fail in one behaviour
DedupTriggers == 3     \* SpecDedup: ANALYZE_PAGE messages in one behaviour
DedupFaults == 1       \* SpecDedup: storage operations that fail
LimitTriggers == 2     \* SpecLimit: ANALYZE_PAGE messages in one behaviour
LimitTicks == 2        \* SpecLimit: clock advances in one behaviour
OptionsTriggers == 1   \* SpecOptions: ANALYZE_PAGE messages in one behaviour
OptionsChanges == 2    \* SpecOptions: options-page changes in one behaviour
ReplayTriggers == 2    \* SpecReplay: ANALYZE_PAGE messages in one behaviour
ReplayTicks == 2       \* SpecReplay: clock advances in one behaviour
ReplayFaults == 1      \* SpecReplay: storage operations that fail
ReplayChanges == 1     \* SpecReplay: options-page changes in one behaviour
CacheTriggers == 2     \* SpecCache: ANALYZE_PAGE messages in one behaviour
CacheTicks == 1        \* SpecCache: clock advances in one behaviour
CacheChanges == 1      \* SpecCache: user changes in one behaviour
TimeoutTriggers == 2   \* SpecTimeout: ANALYZE_PAGE messages
TimeoutTicks == 1      \* SpecTimeout: clock steps
StatsWidth == 2        \* SpecStats: invocations under way at once
StatsTriggers == 2     \* SpecStats: ANALYZE_PAGE messages
StatsTicks == 1        \* SpecStats: clock steps
StatsChanges == 2      \* SpecStats: bypasses, page loads and resets
NumCalls == 2          \* StorageManager calls from the pages under way at once
GoalsChanges == 3      \* SpecGoals: addGoal, removeGoal and importData calls
BackupChanges == 3     \* SpecBackup: exports, imports and key changes
BackupFaults == 1      \* SpecBackup: storage operations that fail
HttpWidth == 2         \* SpecHttp: invocations under way at once
HttpTriggers == 2      \* SpecHttp: ANALYZE_PAGE messages in one behaviour
StreamSpacing == 2000  \* SpecStream: ms between clock readings (interval: 3000)
StreamTriggers == 3    \* SpecStream: ANALYZE_PAGE messages in one behaviour
StreamTicks == 3       \* SpecStream: clock advances in one behaviour
FirefoxTriggers == 2   \* SpecFirefox: ANALYZE_PAGE messages in one behaviour
FirefoxChanges == 3    \* SpecFirefox: popup and options-page changes in one behaviour
SaveChanges == 3       \* SpecSave: options-page changes in one behaviour

(***************************************************************************)
(* Program constants.                                                      *)
(***************************************************************************)
TIMEOUT == 10000
CACHE_DURATION == 3600000
MINUTE_MS == 60000
DEFAULT_THRESHOLD == 75
DEFAULT_RPM == 20
KEY_LENGTH == 50
CONTENT_PREFIX == 100
MAX_CONTENT_LENGTH == 4000
MAX_GOAL_LENGTH == 200
MAX_GOALS_COUNT == 10
MAX_SCORE == 100

Undefined == "undefined"
NoDuration == -1
NoTime == -1
NoScore == -1

(***************************************************************************)
(* Strings the code inspects are sequences of UTF-16 code units.           *)
(***************************************************************************)
Digits == 48..57
Whitespace == {9, 10, 11, 12, 13, 32, 160}
Colon == 58
Bar == 124
Pad == 64                      \* the '=' of base64, as a 65th digit

Min(a, b) == IF a < b THEN a ELSE b

(***************************************************************************)
(* String.prototype.substring(0, n)                                        *)
(***************************************************************************)
Substring0(s, n) == SubSeq(s, 1, Min(n, Len(s)))

(***************************************************************************)
(* String.prototype.trim                                                   *)
(***************************************************************************)
RECURSIVE TrimLeft(_)
TrimLeft(s) ==
  IF s # <<>> /\ Head(s) \in Whitespace THEN TrimLeft(Tail(s)) ELSE s

RECURSIVE TrimRight(_)
TrimRight(s) ==
  IF s # <<>> /\ s[Len(s)] \in Whitespace
  THEN TrimRight(SubSeq(s, 1, Len(s) - 1))
  ELSE s

Trim(s) == TrimRight(TrimLeft(s))

(***************************************************************************)
(* Utils.cleanTextContent (utils.js 9-34).  replace(/\s+/g, ' ') turns     *)
(* every maximal run of whitespace into one space (the replace of /\n+/    *)
(* then finds nothing), trim drops the space at either end; a text longer  *)
(* than MAX_CONTENT_LENGTH is cut to that length, then back to its last    *)
(* space when lastIndexOf(' '), counted from 0, exceeds 0.8 times the      *)
(* limit, and '...' is appended.  A value is [isString, text].             *)
(***************************************************************************)
Space == 32
Ellipsis == <<46, 46, 46>>

\* replace(/\s+/g, ' ')
CollapseWhitespace(s) ==
  LET marked == [i \in 1..Len(s) |->
                   [unit |-> IF s[i] \in Whitespace THEN Space ELSE s[i],
                    drop |-> s[i] \in Whitespace /\ i > 1
                               /\ s[i - 1] \in Whitespace]]
      Kept(m) == ~m.drop
      kept == SelectSeq(marked, Kept)
  IN  [i \in 1..Len(kept) |-> kept[i].unit]

\* lastIndexOf(' '), counted from 0; -1 when there is none
LastIndexOfSpace(s) ==
  LET at == {i \in 1..Len(s) : s[i] = Space} IN
    IF at = {} THEN -1
    ELSE (CHOOSE i \in at : \A j \in at : j <= i) - 1

\* a truncation that never looks for a word boundary
cleanTextContentHardCut(value) ==
  IF ~value.isString \/ value.text = <<>> THEN <<>>
  ELSE LET cleaned == Trim(CollapseWhitespace(value.text)) IN
         IF Len(cleaned) > MAX_CONTENT_LENGTH
         THEN Substring0(cleaned, MAX_CONTENT_LENGTH) \o Ellipsis
         ELSE cleaned

cleanTextContent(value) ==
  IF ~value.isString \/ value.text = <<>> THEN <<>>
  ELSE LET cleaned == Trim(CollapseWhitespace(value.text)) IN
         IF Len(cleaned) > MAX_CONTENT_LENGTH THEN
           LET cut == Substring0(cleaned, MAX_CONTENT_LENGTH)
               lastSpaceIndex == LastIndexOfSpace(cut)
           IN  (IF lastSpaceIndex * 10 > MAX_CONTENT_LENGTH * 8
                THEN Substring0(cut, lastSpaceIndex) ELSE cut) \o Ellipsis
         ELSE cleaned

(***************************************************************************)
(* response.trim().match(/\d+/): the first maximal run of decimal digits,  *)
(* or <<>> when the text holds no digit.                                   *)
(***************************************************************************)
RECURSIVE DropToDigit(_)
DropToDigit(s) ==
  IF s = <<>> \/ Head(s) \in Digits THEN s ELSE DropToDigit(Tail(s))

RECURSIVE TakeDigits(_)
TakeDigits(s) ==
  IF s # <<>> /\ Head(s) \in Digits
  THEN <<Head(s)>> \o TakeDigits(Tail(s))
  ELSE <<>>

FirstDigitRun(s) == TakeDigits(DropToDigit(s))

(***************************************************************************)
(* parseInt(run, 10) of a run of decimal digits                            *)
(***************************************************************************)
RECURSIVE ParseIntFrom(_, _)
ParseIntFrom(acc, s) ==
  IF s = <<>> THEN acc ELSE ParseIntFrom(acc * 10 + (Head(s) - 48), Tail(s))

ParseInt(s) == ParseIntFrom(0, s)

(***************************************************************************)
(* Utils.parseConfidenceScore: the score, or NoScore for null.             *)
(***************************************************************************)
\* the parser without its range validation (utils.js 176-179 left out)
parseConfidenceScoreUnchecked(response) ==
  IF response = <<>> THEN NoScore
  ELSE LET run == FirstDigitRun(Trim(response)) IN
       IF run = <<>> THEN NoScore ELSE ParseInt(run)

\* the parser with the pattern anchored at the start of the text (/^\d+/)
parseConfidenceScoreAnchored(response) ==
  IF response = <<>> THEN NoScore
  ELSE LET run == TakeDigits(Trim(response)) IN
       IF run = <<>> THEN NoScore
       ELSE LET score == ParseInt(run) IN
            IF score < 0 \/ score > MAX_SCORE THEN NoScore ELSE score

parseConfidenceScore(response) ==
  IF response = <<>> THEN NoScore
  ELSE LET run == FirstDigitRun(Trim(response)) IN
       IF run = <<>> THEN NoScore
       ELSE LET score == ParseInt(run) IN
            IF score < 0 \/ score > MAX_SCORE THEN NoScore ELSE score

\* A value handed to parseConfidenceScore: a string with its text, or a value
\* of another type (undefined, null, a number, an array: utils.js 164-166).
parseConfidenceScoreOf(value) ==
  IF ~value.isString THEN NoScore ELSE parseConfidenceScore(value.text)

(***************************************************************************)
(* Utils.isRateLimited at Date.now() = t.  The code compares               *)
(* t - (lastRequestTime || 0) with the real number 60000 / rpm; over the   *)
(* integers that is the cross-multiplied comparison (60000 / 0 is          *)
(* Infinity, a negative rpm gives a negative interval).                    *)
(***************************************************************************)
OrZero(x) == IF x = NoTime THEN 0 ELSE x

\* the limiter with <= in place of the code's <
isRateLimitedInclusive(settings, t) ==
  LET timeSinceLastRequest == t - OrZero(settings.rateLimit.lastRequestTime)
      rpm == settings.rateLimit.requestsPerMinute
  IN  IF rpm > 0 THEN timeSinceLastRequest * rpm <= MINUTE_MS
      ELSE IF rpm = 0 THEN TRUE
      ELSE timeSinceLastRequest * rpm >= MINUTE_MS

isRateLimited(settings, t) ==
  LET timeSinceLastRequest == t - OrZero(settings.rateLimit.lastRequestTime)
      rpm == settings.rateLimit.requestsPerMinute
  IN  IF rpm > 0 THEN timeSinceLastRequest * rpm < MINUTE_MS
      ELSE IF rpm = 0 THEN TRUE
      ELSE timeSinceLastRequest * rpm > MINUTE_MS

(***************************************************************************)
(* Utils.updateRateLimit at Date.now() = t                                 *)
(***************************************************************************)
\* the stamp spread over the default rateLimit instead of settings.rateLimit
updateRateLimitDefaults(settings, t) ==
  [settings EXCEPT !.rateLimit =
     [requestsPerMinute |-> DEFAULT_RPM, lastRequestTime |-> t]]

updateRateLimit(settings, t) ==
  [settings EXCEPT !.rateLimit = [@ EXCEPT !.lastRequestTime = t]]

(***************************************************************************)
(* Array.prototype.join('|') over the goals' texts                         *)
(***************************************************************************)
RECURSIVE JoinTexts(_)
JoinTexts(goals) ==
  IF goals = <<>> THEN <<>>
  ELSE IF Len(goals) = 1 THEN goals[1].text
  ELSE goals[1].text \o <<Bar>> \o JoinTexts(Tail(goals))

(***************************************************************************)
(* btoa: base64 of a string of code units below 256, as a sequence of      *)
(* 6-bit digits (Pad for '=').  BtoaThrows: a code unit above 255 makes    *)
(* btoa throw InvalidCharacterError.                                       *)
(***************************************************************************)
BtoaThrows(s) == \E i \in 1..Len(s) : s[i] > 255

RECURSIVE Btoa(_)
Btoa(s) ==
  IF s = <<>> THEN <<>>
  ELSE IF Len(s) = 1 THEN
    <<s[1] \div 4, (s[1] % 4) * 16, Pad, Pad>>
  ELSE IF Len(s) = 2 THEN
    <<s[1] \div 4, (s[1] % 4) * 16 + s[2] \div 16, (s[2] % 16) * 4, Pad>>
  ELSE
    <<s[1] \div 4, (s[1] % 4) * 16 + s[2] \div 16,
      (s[2] % 16) * 4 + s[3] \div 64, s[3] % 64>>
    \o Btoa(SubSeq(s, 4, Len(s)))

(***************************************************************************)
(* Utils.generateCacheKey                                                  *)
(***************************************************************************)
generateCacheKey(url, content, goals) ==
  LET goalsHash == JoinTexts(goals)
      contentHash == Substring0(content, CONTENT_PREFIX)
  IN  Substring0(Btoa(url \o <<Colon>> \o contentHash \o <<Colon>> \o goalsHash),
                 KEY_LENGTH)

CacheKeyThrows(url, content, goals) ==
  BtoaThrows(url \o <<Colon>> \o Substring0(content, CONTENT_PREFIX)
                 \o <<Colon>> \o JoinTexts(goals))

(***************************************************************************)
(* CONSTANTS.DEFAULT_SETTINGS                                              *)
(***************************************************************************)
DEFAULT_SETTINGS ==
  [enabled |-> TRUE,
   confidenceThreshold |-> DEFAULT_THRESHOLD,
   provider |-> "openrouter",
   model |-> "openai/gpt-5-mini",
   apiKey |-> "",
   rateLimit |-> [requestsPerMinute |-> DEFAULT_RPM, lastRequestTime |-> 0]]

KnownProviders == {"openrouter", "openai", "anthropic"}

(***************************************************************************)
(* Object spread { ...a, ...b }: b's keys win, keys of a alone survive.    *)
(***************************************************************************)
Spread(a, b) ==
  [k \in DOMAIN a \cup DOMAIN b |-> IF k \in DOMAIN b THEN b[k] ELSE a[k]]

(***************************************************************************)
(* AnalysisResult objects.  reasoning `AI confidence: <c>%` is the tag     *)
(* "AI confidence" (c is the confidence field); `Analysis failed: <m>` is  *)
(* the tag "Analysis failed" with m in the error field.  Fields a result   *)
(* object does not carry are Undefined / NoDuration.                       *)
(***************************************************************************)
PlainResult(reasoning) ==
  [confidence |-> 0, shouldBlock |-> FALSE, reasoning |-> reasoning,
   error |-> Undefined, provider |-> Undefined, model |-> Undefined,
   duration |-> NoDuration]

\* a catch block that fails closed
FailOpenResultBlocking(message) ==
  [confidence |-> 0, shouldBlock |-> TRUE, reasoning |-> "Analysis failed",
   error |-> message, provider |-> Undefined, model |-> Undefined,
   duration |-> NoDuration]

FailOpenResult(message) ==
  [confidence |-> 0, shouldBlock |-> FALSE, reasoning |-> "Analysis failed",
   error |-> message, provider |-> Undefined, model |-> Undefined,
   duration |-> NoDuration]

\* the result with > in place of the code's >=
SuccessResultStrict(confidence, settings, duration) ==
  [confidence |-> confidence,
   shouldBlock |-> confidence > settings.confidenceThreshold,
   reasoning |-> "AI confidence",
   error |-> Undefined,
   provider |-> settings.provider,
   model |-> settings.model,
   duration |-> duration]

SuccessResult(confidence, settings, duration) ==
  [confidence |-> confidence,
   shouldBlock |-> confidence >= settings.confidenceThreshold,
   reasoning |-> "AI confidence",
   error |-> Undefined,
   provider |-> settings.provider,
   model |-> settings.model,
   duration |-> duration]

NoResult == PlainResult("none")

(***************************************************************************)
(* Inputs of the model.                                                    *)
(***************************************************************************)
NoTab == 0                               \* sender.tab?.id undefined

\* window.location.href of the background page the client runs in:
\* "chrome-extension://" and the 32-letter extension id, then the path.
LocationHref ==
  <<99, 104, 114, 111, 109, 101, 45, 101, 120, 116, 101, 110, 115, 105,
    111, 110, 58, 47, 47>> \o [i \in 1..32 |-> 97] \o <<47>>

TextA == <<97>>                          \* "a"
TextDash == <<8212>>                     \* U+2014, a code unit above 255

\* the ANALYZE_PAGE messages: sender tab, payload url and content
Pages ==
  {[tab |-> NoTab, url |-> "u1", content |-> TextA],
   [tab |-> 1, url |-> "u1", content |-> TextA],
   [tab |-> 1, url |-> "u2", content |-> TextA],
   [tab |-> 1, url |-> "u2", content |-> TextDash]}

\* provider answers: "75", "60", "n/a", "150"
Responses == {<<55, 53>>, <<54, 48>>, <<110, 47, 97>>, <<49, 53, 48>>}

ProviderErrors == {"Failed to fetch", "HTTP 500"}

GoalG == [text |-> <<103>>, isActive |-> TRUE]
GoalH == [text |-> <<104>>, isActive |-> FALSE]
GoalLists == {<<GoalG>>, <<GoalH>>}

InitSettings ==
  {DEFAULT_SETTINGS,
   [DEFAULT_SETTINGS EXCEPT !.apiKey = "sk-or-key"],
   [DEFAULT_SETTINGS EXCEPT !.apiKey = "sk-or-key", !.provider = "mistral"]}

Deltas == {1, 2999, TIMEOUT, CACHE_DURATION}

Procs == 1..NumProcs

VARIABLES
  now,              \* Date.now()
  env,              \* what the environment offers: the pages, the provider's
                    \* answers and errors, the clock's steps (constant)
  budget,           \* what the environment may still do: triggers, ticks,
                    \* storage faults, options-page changes
  storeSettings,    \* chrome.storage.sync[focus_guard_settings]
  storeGoals,       \* chrome.storage.sync[focus_guard_goals]
  storeAnalytics,   \* chrome.storage.sync[focus_guard_analytics]
  changeEvents,     \* chrome.storage.onChanged events not yet delivered
  bgSettings,       \* BackgroundService.settings
  pendingAnalyses,  \* keys of BackgroundService.pendingAnalyses
  cache,            \* LLMClient.cache: cache key -> [result, timestamp], and
                    \* what the entry was computed for: madeWith (the
                    \* threshold), url (of the page), content, goals
  procs,            \* the handlePageAnalysis invocations in progress
  sent,             \* how the latest invocation ended: its sendResponse call
  opt,              \* OptionsController: settings, save timer, save in flight,
                    \* and saved: the fields its saves have written, latest value
  fnIn, fnOut,      \* argument and value of a function applied on its own
  orphans,          \* provider requests still under way whose race the
                    \* timeout has won
  stats,            \* OptionsController.analytics, the updateAnalytics calls
                    \* of resetStatistics and handlePageBypass under way, and
                    \* what has happened: analyzePageContent calls returned,
                    \* those that returned shouldBlock, resets completed
  ops,              \* the StorageManager calls the pages have made (addGoal,
                    \* removeGoal, importData, exportData): arguments, what
                    \* was read, outcome; and the next goal id
  contentAnalyzer   \* the ContentAnalyzer of one tab and its document: the
                    \* flags, the saved body, the body now, the timers of
                    \* scheduleAnalysis not yet fired and the messages sent

vars == <<now, env, budget, storeSettings, storeGoals, storeAnalytics,
          changeEvents, bgSettings, pendingAnalyses, cache, procs, sent, opt,
          fnIn, fnOut, orphans, stats, ops, contentAnalyzer>>

storeVars == <<storeSettings, storeGoals, storeAnalytics, changeEvents>>
fnVars == <<fnIn, fnOut>>

ZeroAnalytics == [totalRequests |-> 0, blockedPages |-> 0, bypassedPages |-> 0]

\* an updateAnalytics call: not under way
IdleUpdate == [pc |-> "idle", ana |-> ZeroAnalytics, updates |-> ZeroAnalytics]

Calls == 1..NumCalls

\* a call slot: fn and its arguments (text, id, data), what the call read
\* (goals, settings), how it ended (outcome "returned" or "threw", error)
\* and the value it returned
NoData ==
  [hasGoals |-> FALSE, goals |-> <<>>, hasSettings |-> FALSE,
   settings |-> [enabled |-> TRUE]]

IdleCall ==
  [fn |-> "none", pc |-> "idle", text |-> <<>>, id |-> 0, data |-> NoData,
   goals |-> <<>>, settings |-> DEFAULT_SETTINGS, outcome |-> "none",
   error |-> "", value |-> NoData]

NoUpdates == <<>>

\* calls: the StorageManager calls under way; asked: the fields the user
\* changed on the options page, each with the value last entered
InitOps ==
  [calls |-> [c \in Calls |-> IdleCall], nextId |-> MAX_GOALS_COUNT + 1,
   asked |-> NoUpdates]

InitStats ==
  [analytics |-> ZeroAnalytics, reset |-> IdleUpdate, bypass |-> IdleUpdate,
   returned |-> 0, blocking |-> 0, resets |-> 0,
   arrived |-> NoTime, issued |-> NoTime]

\* makeRequest's `response` before fetch has resolved
NoHttp == [status |-> 0, body |-> "", content |-> <<>>]

IdleProc ==
  [pc |-> "idle", tab |-> NoTab, url |-> "u1", content |-> <<>>,
   goals |-> <<>>, cur |-> DEFAULT_SETTINGS, stamp |-> 0, start |-> 0,
   result |-> NoResult, ana |-> ZeroAnalytics,
   wrote |-> FALSE, path |-> "none", text |-> <<>>, madeWith |-> 0,
   began |-> [goals |-> <<>>, heard |-> TRUE], http |-> NoHttp]

\* Besides the code's locals an invocation records what happened to it:
\*   wrote     its setSettings call has stored the rate-limit stamp
\*   path      the branch analyzePageContent left by ("none" before it ran):
\*             "config", "nogoals", "limited", "btoa", "hit", "unknown",
\*             then for a dispatched request "text", "rejected", "timeout"
\*   text      the provider's answer on path "text"
\*   madeWith  the confidenceThreshold the result was computed against
\*   began     the stored goals when the trigger arrived, and whether every
\*             storage change had been delivered to the listener by then
\*
\* sent is the sendResponse call of the step just taken.  kind: "none" when
\* the step ended no invocation, "ignored" when the invocation returned
\* without calling sendResponse, "error" for { error: ... },
\* "ANALYSIS_RESULT" for a result message; via is "notab", "disabled",
\* "duplicate", "storage" or the invocation's path.  A step of
\* getCacheStats, which ends no invocation, leaves via "getCacheStats".
NothingSent ==
  [kind |-> "none", tab |-> NoTab, url |-> "u1", payload |-> NoResult,
   via |-> "none", text |-> <<>>, madeWith |-> 0]

PendingKey(tab, url) == <<tab, url>>        \* `${tabId}-${url}`

IdleSave == [pc |-> "idle", updates |-> NoUpdates, cur |-> DEFAULT_SETTINGS]

Quiet == sent' = NothingSent

\* a function applied on its own: which one, to what, and its value
NoCall ==
  [fn |-> "none", settings |-> DEFAULT_SETTINGS, confidence |-> 0, now |-> 0,
   url |-> <<>>, content |-> <<>>, goals |-> <<>>, others |-> <<>>,
   response |-> [isString |-> FALSE, text |-> <<>>],
   provider |-> "", apiKey |-> "", fetched |-> [failed |-> FALSE, status |-> 0],
   raw |-> [isString |-> FALSE, text |-> <<>>]]
NoValue ==
  [limited |-> FALSE, result |-> NoResult, key |-> <<>>, otherKey |-> <<>>,
   score |-> NoScore,
   validation |-> [threw |-> FALSE, success |-> FALSE, error |-> Undefined],
   cleaned |-> <<>>]

\* ---- the content script (ContentAnalyzer) ----

\* JavaScript null, the value of originalPageContent and analysisResult
\* before anything is saved
Null == "null"

\* document.body.innerHTML of the pages a tab may show
EmptyPage == ""
PageContents == {EmptyPage, "<p>article</p>", "<p>video</p>"}

\* the document body: the page's own markup and whether the element with
\* BLOCKING_OVERLAY_ID is attached to it
Body(html, overlay) == [html |-> html, overlay |-> overlay]

\* the results handleAnalysisResult may be handed
TabResults ==
  {[shouldBlock |-> b, confidence |-> c] : b \in BOOLEAN, c \in {40, 90}}

\* the state the constructor leaves, on a page that has loaded
InitTab ==
  [isAnalyzing |-> FALSE, isBlocked |-> FALSE, analysisResult |-> Null,
   originalPageContent |-> Null, body |-> Body("<p>article</p>", FALSE),
   timers |-> 0, requests |-> 0, bypasses |-> 0, events |-> 0,
   shown |-> Null]

\* removeBlockingOverlay(): detaches the overlay element if there is one
removeBlockingOverlay(body) == [body EXCEPT !.overlay = FALSE]

\* createBlockingOverlay(result): removes an existing overlay, empties the
\* body and appends the overlay element
createBlockingOverlay(body) ==
  [removeBlockingOverlay(body) EXCEPT !.html = EmptyPage, !.overlay = TRUE]

\* blockPage without its first statement: it saves the body again when the
\* page is already blocked
blockPageUnguarded(t, result) ==
  [t EXCEPT !.isBlocked = TRUE,
            !.originalPageContent = t.body.html,
            !.body = createBlockingOverlay(t.body)]

\* blockPage(result): returns at once when already blocked; otherwise sets
\* isBlocked, saves document.body.innerHTML and shows the overlay. shown
\* records the markup the page had when it was blocked.
blockPage(t, result) ==
  IF t.isBlocked
  THEN t
  ELSE [t EXCEPT !.isBlocked = TRUE,
                 !.originalPageContent = t.body.html,
                 !.body = createBlockingOverlay(t.body),
                 !.shown = t.body.html]

\* unblockPage(): returns at once when not blocked; otherwise removes the
\* overlay, writes a truthy originalPageContent back to the body and nulls
\* it, and clears isBlocked
unblockPage(t) ==
  IF ~t.isBlocked
  THEN t
  ELSE LET cleared == removeBlockingOverlay(t.body)
           truthy == t.originalPageContent # Null /\ t.originalPageContent # ""
       IN  [t EXCEPT !.body = IF truthy
                               THEN [cleared EXCEPT !.html = t.originalPageContent]
                               ELSE cleared,
                     !.originalPageContent = IF truthy THEN Null ELSE @,
                     !.isBlocked = FALSE]

\* handleAnalysisResult(result)
handleAnalysisResult(t, result) ==
  LET stored == [t EXCEPT !.analysisResult = result]
  IN  IF result.shouldBlock THEN blockPage(stored, result) ELSE unblockPage(stored)

\* handleBypass(): sends BYPASS_PAGE to the background, then unblockPage()
handleBypass(t) == unblockPage([t EXCEPT !.bypasses = @ + 1])

\* content.trim().length < 50 of analyzeCurrentPage: the empty page has too
\* little text, the others have enough
HasEnoughContent(body) == body.html # EmptyPage /\ ~body.overlay

\* analyzeCurrentPage(): sets isAnalyzing, extracts the content, returns
\* without sending when it is too short, otherwise sends ANALYZE_PAGE; the
\* finally block clears isAnalyzing before the response arrives
analyzeCurrentPage(t) ==
  IF t.isAnalyzing
  THEN t
  ELSE IF HasEnoughContent(t.body) THEN [t EXCEPT !.requests = @ + 1] ELSE t

InitWith(offered, width, triggers, ticks, faults, changes) ==
  /\ now = StartTime
  /\ env = offered
  /\ budget = [width |-> width, triggers |-> triggers, ticks |-> ticks,
               faults |-> faults, changes |-> changes]
  /\ storeSettings \in InitSettings
  /\ storeGoals \in GoalLists
  /\ storeAnalytics = ZeroAnalytics
  /\ changeEvents = <<>>
  /\ bgSettings = storeSettings
  /\ pendingAnalyses = {}
  /\ cache = <<>>
  /\ procs = [p \in Procs |-> IdleProc]
  /\ sent = NothingSent
  /\ opt = [settings |-> storeSettings, timer |-> NoUpdates, save |-> IdleSave,
            saved |-> NoUpdates]
  /\ fnIn = NoCall
  /\ fnOut = NoValue
  /\ orphans = 0
  /\ stats = InitStats
  /\ ops = InitOps
  /\ contentAnalyzer = InitTab

Environment(pages, responses, errors, deltas) ==
  [pages |-> pages, responses |-> responses, errors |-> errors, deltas |-> deltas]

Init ==
  InitWith(Environment(Pages, Responses, ProviderErrors, Deltas),
           FlowWidth, FlowTriggers, FlowTicks, FlowFaults, 0)

(***************************************************************************)
(* chrome.storage.sync.set of the settings key: the store takes the value  *)
(* and, when it differs from the old one, queues an onChanged event.       *)
(***************************************************************************)
SettingsEvent(newValue) == [key |-> "settings", newValue |-> newValue]

EventsAfterSet(newValue) ==
  IF newValue = storeSettings THEN changeEvents
  ELSE Append(changeEvents, SettingsEvent(newValue))

(***************************************************************************)
(* A storage operation succeeds, or fails while the budget allows.         *)
(***************************************************************************)
Storage(ok) ==
  /\ ok \/ budget.faults > 0
  /\ budget' = IF ok THEN budget ELSE [budget EXCEPT !.faults = @ - 1]

(***************************************************************************)
(* The clock.                                                              *)
(***************************************************************************)
Tick(d) ==
  /\ budget.ticks > 0
  /\ budget' = [budget EXCEPT !.ticks = @ - 1]
  /\ now' = now + d
  /\ Quiet
  /\ UNCHANGED <<storeVars, bgSettings, pendingAnalyses, cache, procs, opt>>

(***************************************************************************)
(* An invocation ends: sendResponse as given, the slot is free again.      *)
(***************************************************************************)
End(p, kind, tab, url, payload, via) ==
  /\ procs' = [procs EXCEPT ![p] = IdleProc]
  /\ sent' = [kind |-> kind, tab |-> tab, url |-> url, payload |-> payload,
              via |-> via, text |-> procs[p].text,
              madeWith |-> procs[p].madeWith]

(***************************************************************************)
(* handlePageAnalysis up to its first await (background.js 92-134).  The   *)
(* returns inside the try block run the finally block, which deletes the   *)
(* pending key whoever inserted it.                                        *)
(***************************************************************************)
Trigger(p, page) ==
  /\ procs[p].pc = "idle"
  /\ \A q \in Procs : q < p => procs[q].pc # "idle"
  /\ budget.triggers > 0
  /\ Cardinality({q \in Procs : procs[q].pc # "idle"}) < budget.width
  /\ budget' = [budget EXCEPT !.triggers = @ - 1]
  /\ LET tab == page.tab
         url == page.url
         key == PendingKey(tab, url)
     IN
     IF tab = NoTab THEN
       /\ End(p, "error", tab, url, FailOpenResult("No tab ID available"), "notab")
       /\ UNCHANGED pendingAnalyses
     ELSE IF ~bgSettings.enabled THEN
       /\ End(p, "ANALYSIS_RESULT", tab, url, PlainResult("Extension disabled"),
              "disabled")
       /\ pendingAnalyses' = pendingAnalyses \ {key}
     ELSE IF key \in pendingAnalyses THEN
       /\ End(p, "ignored", tab, url, NoResult, "duplicate")
       /\ pendingAnalyses' = pendingAnalyses \ {key}
     ELSE
       /\ procs' = [procs EXCEPT ![p] =
            [@ EXCEPT !.pc = "read", !.tab = tab, !.url = url,
                      !.content = page.content,
                      !.began = [goals |-> storeGoals,
                                 heard |-> changeEvents = <<>>]]]
       /\ pendingAnalyses' = pendingAnalyses \cup {key}
       /\ Quiet
  /\ UNCHANGED <<now, storeVars, bgSettings, cache, opt>>

(***************************************************************************)
(* StorageManager.getGoals and getSettings are served (a failed get gives  *)
(* [] and DEFAULT_SETTINGS), then background.js 136-141 runs: the settings *)
(* cache is replaced, updateRateLimit stamps Date.now(), setSettings is    *)
(* called.                                                                 *)
(***************************************************************************)
ReadStore(p, ok) ==
  /\ procs[p].pc = "read"
  /\ Storage(ok)
  /\ LET goals == IF ok THEN storeGoals ELSE <<>>
         currentSettings ==
           IF ok THEN Spread(DEFAULT_SETTINGS, storeSettings) ELSE DEFAULT_SETTINGS
     IN  /\ bgSettings' = currentSettings
         /\ procs' = [procs EXCEPT ![p] =
              [@ EXCEPT !.pc = "write", !.goals = goals,
                        !.cur = currentSettings, !.stamp = now]]
  /\ Quiet
  /\ UNCHANGED <<now, storeVars, pendingAnalyses, cache, opt>>

(***************************************************************************)
(* The way out of handlePageAnalysis after the key was inserted: the       *)
(* result is sent (background.js 164-168) or the catch block sends the     *)
(* fail-open result (170-182), and the finally block deletes the key.      *)
(***************************************************************************)
\* a way out whose finally block is missing
SettleKeepsKey(p, payload, via) ==
  /\ End(p, "ANALYSIS_RESULT", procs[p].tab, procs[p].url, payload, via)
  /\ UNCHANGED pendingAnalyses

Settle(p, payload, via) ==
  /\ End(p, "ANALYSIS_RESULT", procs[p].tab, procs[p].url, payload, via)
  /\ pendingAnalyses' = pendingAnalyses \ {PendingKey(procs[p].tab, procs[p].url)}

(***************************************************************************)
(* StorageManager.setSettings(updatedSettings), storage.js 109-122: the    *)
(* stored settings are read and spread under the argument, the result is   *)
(* stored.  A failed set throws into handlePageAnalysis's catch.           *)
(***************************************************************************)
\* setSettings called without await: the invocation goes on before the
\* store has taken the stamp
WriteSettingsUnawaited(p, ok) ==
  /\ procs[p].pc = "write"
  /\ Storage(ok)
  /\ procs' = [procs EXCEPT ![p].pc = "analyze"]
  /\ Quiet
  /\ UNCHANGED <<now, storeSettings, storeGoals, storeAnalytics, changeEvents,
                 bgSettings, pendingAnalyses, cache, opt>>

WriteSettings(p, ok) ==
  /\ procs[p].pc = "write"
  /\ Storage(ok)
  /\ IF ok THEN
       LET updatedSettings ==
             Spread(Spread(DEFAULT_SETTINGS, storeSettings),
                    updateRateLimit(procs[p].cur, procs[p].stamp))
       IN  /\ storeSettings' = updatedSettings
           /\ changeEvents' = EventsAfterSet(updatedSettings)
           /\ procs' = [procs EXCEPT ![p] =
                [@ EXCEPT !.pc = "analyze", !.wrote = TRUE]]
           /\ UNCHANGED pendingAnalyses
           /\ Quiet
     ELSE
       /\ Settle(p, FailOpenResult("storage set failed"), "storage")
       /\ UNCHANGED <<storeSettings, changeEvents>>
  /\ UNCHANGED <<now, storeGoals, storeAnalytics, bgSettings, cache, opt>>

(***************************************************************************)
(* analyzePageContent has returned `result`: handlePageAnalysis goes on to *)
(* StorageManager.updateAnalytics (background.js 151-155).                 *)
(***************************************************************************)
Return(p, result, path, text, madeWith) ==
  procs' = [procs EXCEPT ![p] =
    [@ EXCEPT !.pc = "anaGet", !.result = result, !.path = path,
              !.text = text, !.madeWith = madeWith]]

IsActive(goal) == goal.isActive

ActiveGoals(goals) == SelectSeq(goals, IsActive)

CacheSet(c, key, entry) ==
  [k \in DOMAIN c \cup {key} |-> IF k = key THEN entry ELSE c[k]]

CacheDelete(c, key) == [k \in DOMAIN c \ {key} |-> c[k]]

(***************************************************************************)
(* The rate-limit exit of analyzePageContent (llm-client.js 254-262).      *)
(***************************************************************************)
\* the exit taken after the cache lookup instead of before it
RateLimitExitAfterLookup(p, cacheKey) ==
  IF cacheKey \in DOMAIN cache
     /\ now - cache[cacheKey].timestamp < CACHE_DURATION THEN
    /\ Return(p, cache[cacheKey].result, "limited", <<>>, cache[cacheKey].madeWith)
    /\ UNCHANGED cache
  ELSE
    /\ Return(p, PlainResult("Rate limit exceeded"), "limited", <<>>, 0)
    /\ cache' = CacheDelete(cache, cacheKey)

RateLimitExit(p, cacheKey) ==
  /\ Return(p, PlainResult("Rate limit exceeded"), "limited", <<>>, 0)
  /\ UNCHANGED cache

(***************************************************************************)
(* The cache-hit exit of analyzePageContent (llm-client.js 266-270).       *)
(***************************************************************************)
\* a hit that renews the entry
CacheHitRefreshing(p, cacheKey) ==
  /\ Return(p, cache[cacheKey].result, "hit", <<>>, cache[cacheKey].madeWith)
  /\ cache' = [cache EXCEPT ![cacheKey].timestamp = now]

\* a hit that takes the duration anew
CacheHitRecomputed(p, cacheKey) ==
  /\ Return(p, [cache[cacheKey].result EXCEPT !.duration = 0], "hit", <<>>,
            cache[cacheKey].madeWith)
  /\ UNCHANGED cache

CacheHit(p, cacheKey) ==
  /\ Return(p, cache[cacheKey].result, "hit", <<>>, cache[cacheKey].madeWith)
  /\ UNCHANGED cache

(***************************************************************************)
(* The not-configured exit of analyzePageContent (llm-client.js 241-243,   *)
(* caught at 320-331).                                                     *)
(***************************************************************************)
\* the check made after the cache lookup instead of first
NotConfiguredExitAfterLookup(p, cacheKey) ==
  IF cacheKey \in DOMAIN cache
     /\ now - cache[cacheKey].timestamp < CACHE_DURATION THEN
    /\ Return(p, cache[cacheKey].result, "config", <<>>, cache[cacheKey].madeWith)
    /\ UNCHANGED cache
  ELSE
    /\ Return(p, FailOpenResult("LLM provider not configured"), "config", <<>>, 0)
    /\ cache' = CacheDelete(cache, cacheKey)

NotConfiguredExit(p, cacheKey) ==
  /\ Return(p, FailOpenResult("LLM provider not configured"), "config", <<>>, 0)
  /\ UNCHANGED cache

(***************************************************************************)
(* The no-goals exit of analyzePageContent (llm-client.js 245-252).        *)
(***************************************************************************)
\* the check made after the cache lookup
NoGoalsExitAfterLookup(p, cacheKey) ==
  IF cacheKey \in DOMAIN cache
     /\ now - cache[cacheKey].timestamp < CACHE_DURATION THEN
    /\ Return(p, cache[cacheKey].result, "nogoals", <<>>, cache[cacheKey].madeWith)
    /\ UNCHANGED cache
  ELSE
    /\ Return(p, PlainResult("No goals configured"), "nogoals", <<>>, 0)
    /\ cache' = CacheDelete(cache, cacheKey)

NoGoalsExit(p, cacheKey) ==
  /\ Return(p, PlainResult("No goals configured"), "nogoals", <<>>, 0)
  /\ UNCHANGED cache

(***************************************************************************)
(* LLMClient.analyzePageContent from its entry to the provider request     *)
(* (llm-client.js 238-294), called with goals.filter(isActive) and the     *)
(* settings read before the rate-limit stamp was written.                  *)
(***************************************************************************)
\* analyzePageContent given updatedSettings, the snapshot with the stamp
AnalyzeAfterStamp(p) ==
  /\ procs[p].pc = "analyze"
  /\ LET settings == updateRateLimit(procs[p].cur, procs[p].stamp)
         goals == ActiveGoals(procs[p].goals)
         content == procs[p].content
         cacheKey == generateCacheKey(LocationHref, content, goals)
     IN
     IF settings.provider = "" \/ settings.apiKey = "" THEN
       NotConfiguredExit(p, cacheKey)
     ELSE IF goals = <<>> THEN
       NoGoalsExit(p, cacheKey)
     ELSE IF isRateLimited(settings, now) THEN
       RateLimitExit(p, cacheKey)
     ELSE IF CacheKeyThrows(LocationHref, content, goals) THEN
       /\ Return(p, FailOpenResult("InvalidCharacterError"), "btoa", <<>>, 0)
       /\ UNCHANGED cache
     ELSE IF cacheKey \in DOMAIN cache
             /\ now - cache[cacheKey].timestamp < CACHE_DURATION THEN
       CacheHit(p, cacheKey)
     ELSE
       /\ cache' = CacheDelete(cache, cacheKey)
       /\ IF settings.provider \notin KnownProviders THEN
            Return(p, FailOpenResult("Unknown provider"), "unknown", <<>>, 0)
          ELSE
            procs' = [procs EXCEPT ![p] = [@ EXCEPT !.pc = "fetch", !.start = now]]
  /\ Quiet
  /\ UNCHANGED <<now, budget, storeVars, bgSettings, pendingAnalyses, opt>>

Analyze(p) ==
  /\ procs[p].pc = "analyze"
  /\ LET settings == procs[p].cur
         goals == ActiveGoals(procs[p].goals)
         content == procs[p].content
         cacheKey == generateCacheKey(LocationHref, content, goals)
     IN
     IF settings.provider = "" \/ settings.apiKey = "" THEN
       NotConfiguredExit(p, cacheKey)
     ELSE IF goals = <<>> THEN
       NoGoalsExit(p, cacheKey)
     ELSE IF isRateLimited(settings, now) THEN
       RateLimitExit(p, cacheKey)
     ELSE IF CacheKeyThrows(LocationHref, content, goals) THEN
       /\ Return(p, FailOpenResult("InvalidCharacterError"), "btoa", <<>>, 0)
       /\ UNCHANGED cache
     ELSE IF cacheKey \in DOMAIN cache
             /\ now - cache[cacheKey].timestamp < CACHE_DURATION THEN
       CacheHit(p, cacheKey)
     ELSE
       /\ cache' = CacheDelete(cache, cacheKey)
       /\ IF settings.provider \notin KnownProviders THEN
            Return(p, FailOpenResult("Unknown provider"), "unknown", <<>>, 0)
          ELSE
            procs' = [procs EXCEPT ![p] = [@ EXCEPT !.pc = "fetch", !.start = now]]
  /\ Quiet
  /\ UNCHANGED <<now, budget, storeVars, bgSettings, pendingAnalyses, opt>>

(***************************************************************************)
(* The provider's text wins the race (llm-client.js 295-320).              *)
(***************************************************************************)
\* a null parse taken as the score 0 on the success path
ProviderRespondDefaulting(p, response) ==
  /\ procs[p].pc = "fetch"
  /\ LET settings == procs[p].cur
         cacheKey == generateCacheKey(LocationHref, procs[p].content,
                                      ActiveGoals(procs[p].goals))
         duration == now - procs[p].start
         parsed == parseConfidenceScore(response)
         confidence == IF parsed = NoScore THEN 0 ELSE parsed
         result == SuccessResult(confidence, settings, duration)
     IN
     /\ cache' = CacheSet(cache, cacheKey,
          [result |-> result, timestamp |-> now,
           madeWith |-> settings.confidenceThreshold,
           url |-> procs[p].url, content |-> procs[p].content,
           goals |-> ActiveGoals(procs[p].goals)])
     /\ Return(p, result, "text", response, settings.confidenceThreshold)
  /\ Quiet
  /\ UNCHANGED <<now, budget, storeVars, bgSettings, pendingAnalyses, opt>>

ProviderRespond(p, response) ==
  /\ procs[p].pc = "fetch"
  /\ LET settings == procs[p].cur
         cacheKey == generateCacheKey(LocationHref, procs[p].content,
                                      ActiveGoals(procs[p].goals))
         duration == now - procs[p].start
         confidence == parseConfidenceScore(response)
     IN
     IF confidence = NoScore THEN
       /\ Return(p, FailOpenResult("Invalid confidence score in response"),
                 "text", response, 0)
       /\ UNCHANGED cache
     ELSE
       LET result == SuccessResult(confidence, settings, duration) IN
       /\ cache' = CacheSet(cache, cacheKey,
            [result |-> result, timestamp |-> now,
             madeWith |-> settings.confidenceThreshold,
             url |-> procs[p].url, content |-> procs[p].content,
             goals |-> ActiveGoals(procs[p].goals)])
       /\ Return(p, result, "text", response, settings.confidenceThreshold)
  /\ Quiet
  /\ UNCHANGED <<now, budget, storeVars, bgSettings, pendingAnalyses, opt>>

(***************************************************************************)
(* The provider call rejects first: fetch fails, or handleResponse throws  *)
(* `HTTP <status>: <body>` (llm-client.js 24-30, 322-332).                 *)
(***************************************************************************)
ProviderError(p, message) ==
  /\ procs[p].pc = "fetch"
  /\ Return(p, FailOpenResult(message), "rejected", <<>>, 0)
  /\ Quiet
  /\ UNCHANGED <<now, budget, storeVars, bgSettings, pendingAnalyses, cache, opt>>

(***************************************************************************)
(* The timer of the race fires first (llm-client.js 291-293): the clock    *)
(* has reached startTime + TIMEOUT by then.                                *)
(***************************************************************************)
\* a timer whose rejection is lost: the race stays undecided
ProviderTimeoutSwallowed(p) ==
  /\ procs[p].pc = "fetch"
  /\ now' = IF now - procs[p].start >= TIMEOUT THEN now
            ELSE procs[p].start + TIMEOUT
  /\ Quiet
  /\ UNCHANGED <<budget, storeVars, bgSettings, pendingAnalyses, cache, procs, opt>>

ProviderTimeout(p) ==
  /\ procs[p].pc = "fetch"
  /\ now' = IF now - procs[p].start >= TIMEOUT THEN now
            ELSE procs[p].start + TIMEOUT
  /\ Return(p, FailOpenResult("Request timeout"), "timeout", <<>>, 0)
  /\ Quiet
  /\ UNCHANGED <<budget, storeVars, bgSettings, pendingAnalyses, cache, opt>>

(***************************************************************************)
(* StorageManager.updateAnalytics (storage.js 127-163): getAnalytics is    *)
(* served (zeros when the get fails) ...                                   *)
(***************************************************************************)
AnalyticsGet(p, ok) ==
  /\ procs[p].pc = "anaGet"
  /\ Storage(ok)
  /\ procs' = [procs EXCEPT ![p] =
       [@ EXCEPT !.pc = "anaSet",
                 !.ana = IF ok THEN storeAnalytics ELSE ZeroAnalytics]]
  /\ Quiet
  /\ UNCHANGED <<now, storeVars, bgSettings, pendingAnalyses, cache, opt>>

(***************************************************************************)
(* ... and the updated counters are stored; handlePageAnalysis then sends  *)
(* the result (background.js 164-168).  A failed set throws into the catch *)
(* block (170-182).  Either way the finally block runs.                    *)
(***************************************************************************)
AnalyticsSet(p, ok) ==
  /\ procs[p].pc = "anaSet"
  /\ Storage(ok)
  /\ IF ok THEN
       /\ storeAnalytics' =
            [procs[p].ana EXCEPT
               !.totalRequests = @ + 1,
               !.blockedPages = IF procs[p].result.shouldBlock THEN @ + 1 ELSE @]
       /\ Settle(p, procs[p].result, procs[p].path)
     ELSE
       /\ Settle(p, FailOpenResult("storage set failed"), "storage")
       /\ UNCHANGED storeAnalytics
  /\ UNCHANGED <<now, storeSettings, storeGoals, changeEvents, bgSettings,
                 cache, opt>>

(***************************************************************************)
(* BackgroundService.handleStorageChange (background.js 277-298)           *)
(***************************************************************************)
StorageChanged ==
  /\ changeEvents # <<>>
  /\ LET event == Head(changeEvents) IN
       IF event.key = "settings" THEN
         /\ bgSettings' = Spread(DEFAULT_SETTINGS, event.newValue)
         /\ UNCHANGED cache
       ELSE
         /\ cache' = <<>>
         /\ UNCHANGED bgSettings
  /\ changeEvents' = Tail(changeEvents)
  /\ Quiet
  /\ UNCHANGED <<now, budget, storeSettings, storeGoals, storeAnalytics, pendingAnalyses, procs, opt>>

(***************************************************************************)
(* LLMClient.getCacheStats (llm-client.js 375-394), run by the service's   *)
(* interval timer (background.js 37-39): the expired entries are deleted.  *)
(***************************************************************************)
\* statistics that count the expired entries and leave them
getCacheStatsCounting ==
  /\ UNCHANGED cache
  /\ sent' = [NothingSent EXCEPT !.via = "getCacheStats"]
  /\ UNCHANGED <<now, budget, storeVars, bgSettings, pendingAnalyses, procs, opt>>

getCacheStats ==
  /\ LET valid == {k \in DOMAIN cache : now - cache[k].timestamp < CACHE_DURATION}
     IN  cache' = [k \in valid |-> cache[k]]
  /\ sent' = [NothingSent EXCEPT !.via = "getCacheStats"]
  /\ UNCHANGED <<now, budget, storeVars, bgSettings, pendingAnalyses, procs, opt>>

(***************************************************************************)
(* OptionsController.debouncedSave (storage.js 1331-1347): the new timer   *)
(* replaces the one not yet fired, with its updates.                       *)
(***************************************************************************)
debouncedSave(updates) ==
  /\ budget.changes > 0
  /\ budget' = [budget EXCEPT !.changes = @ - 1]
  /\ opt' = [opt EXCEPT !.timer = updates]
  /\ Quiet
  /\ UNCHANGED <<now, storeVars, bgSettings, pendingAnalyses, cache, procs>>

UserThresholds == {50, 90}
UserRpms == {60}

\* storage.js 1122-1125
handleThresholdChange(threshold) ==
  debouncedSave([confidenceThreshold |-> threshold])

\* storage.js 1130-1132
handleExtensionToggle(enabled) ==
  debouncedSave([enabled |-> enabled])

\* storage.js 1137-1144
handleRateLimitChange(requestsPerMinute) ==
  debouncedSave([rateLimit |->
    [opt.settings.rateLimit EXCEPT !.requestsPerMinute = requestsPerMinute]])

\* storage.js 1108-1117: the controller's copy takes the key at once
UserApiKeys == {""}

handleApiKeyChange(apiKey) ==
  /\ budget.changes > 0
  /\ budget' = [budget EXCEPT !.changes = @ - 1]
  /\ opt' = [opt EXCEPT !.settings = [@ EXCEPT !.apiKey = apiKey],
                        !.timer = [apiKey |-> apiKey]]
  /\ Quiet
  /\ UNCHANGED <<now, storeVars, bgSettings, pendingAnalyses, cache, procs>>

\* storage.js 1149-1151
handleCacheToggle(enableCache) ==
  debouncedSave([enableCache |-> enableCache])

(***************************************************************************)
(* StorageManager.setGoals (storage.js 27-37), as addGoal, removeGoal and  *)
(* importData call it: the store takes the list and, when it differs from  *)
(* the old one, queues an onChanged event.                                 *)
(***************************************************************************)
GoalK == [text |-> <<107>>, isActive |-> TRUE]
UserGoalLists == {<<GoalK>>, <<GoalH>>}

setGoals(goals) ==
  /\ budget.changes > 0
  /\ budget' = [budget EXCEPT !.changes = @ - 1]
  /\ storeGoals' = goals
  /\ changeEvents' =
       IF goals = storeGoals THEN changeEvents
       ELSE Append(changeEvents, [key |-> "goals", newValue |-> goals])
  /\ Quiet
  /\ UNCHANGED <<now, storeSettings, storeAnalytics, bgSettings,
                 pendingAnalyses, cache, procs, opt>>

(***************************************************************************)
(* The save timer fires and setSettings(updates) reads the stored settings *)
(* (storage.js 1338-1340, 109-112).                                        *)
(***************************************************************************)
OptionsSaveRead ==
  /\ opt.timer # NoUpdates
  /\ opt.save.pc = "idle"
  /\ opt' = [opt EXCEPT
       !.timer = NoUpdates,
       !.save = [pc |-> "writing", updates |-> opt.timer,
                 cur |-> Spread(DEFAULT_SETTINGS, storeSettings)]]
  /\ Quiet
  /\ UNCHANGED <<now, budget, storeVars, bgSettings, pendingAnalyses, cache, procs>>

(***************************************************************************)
(* setSettings stores the spread and the controller keeps what it returns  *)
(* (storage.js 112-117, 1340).                                             *)
(***************************************************************************)
OptionsSaveWrite ==
  /\ opt.save.pc = "writing"
  /\ LET updatedSettings == Spread(opt.save.cur, opt.save.updates) IN
       /\ storeSettings' = updatedSettings
       /\ changeEvents' = EventsAfterSet(updatedSettings)
       /\ opt' = [opt EXCEPT !.settings = updatedSettings, !.save = IdleSave,
                             !.saved = Spread(@, opt.save.updates)]
  /\ Quiet
  /\ UNCHANGED <<now, budget, storeGoals, storeAnalytics, bgSettings, pendingAnalyses, cache, procs>>

Busy(p) == procs[p].pc # "idle"

\* the invocations whose race the timeout wins in the step taken
TimedOut ==
  {p \in Procs : procs[p].pc = "fetch" /\ procs'[p].pc # "fetch"
                   /\ procs'[p].path = "timeout"}

Step(A) ==
  /\ A
  /\ orphans' = orphans + Cardinality(TimedOut)
  /\ UNCHANGED <<env, fnVars, contentAnalyzer, stats, ops>>

(***************************************************************************)
(* The provider answers a request whose race is over: the promise of       *)
(* provider.analyzeContent settles with nothing awaiting it                *)
(* (llm-client.js 289-294).                                                *)
(***************************************************************************)
\* a late answer that runs the code after the race: it stores a result
LateResponseStoring(response) ==
  /\ orphans > 0
  /\ orphans' = orphans - 1
  /\ cache' = CacheSet(cache, generateCacheKey(LocationHref, <<>>, <<>>),
       [result |-> SuccessResult(IF parseConfidenceScore(response) = NoScore
                                 THEN 0 ELSE parseConfidenceScore(response),
                                 DEFAULT_SETTINGS, TIMEOUT),
        timestamp |-> now, madeWith |-> DEFAULT_THRESHOLD,
        url |-> "u1", content |-> <<>>, goals |-> <<>>])
  /\ Quiet
  /\ UNCHANGED <<now, env, budget, storeVars, bgSettings, pendingAnalyses,
                 procs, opt, fnVars, contentAnalyzer, stats, ops>>

LateResponse(response) ==
  /\ orphans > 0
  /\ orphans' = orphans - 1
  /\ Quiet
  /\ UNCHANGED <<now, env, budget, storeVars, bgSettings, pendingAnalyses,
                 cache, procs, opt, fnVars, contentAnalyzer, stats, ops>>

Next ==
  \/ \E d \in env.deltas : Step(Tick(d))
  \/ \E p \in Procs, page \in env.pages : Step(Trigger(p, page))
  \/ \E p \in Procs, ok \in BOOLEAN : Step(ReadStore(p, ok))
  \/ \E p \in Procs, ok \in BOOLEAN : Step(WriteSettings(p, ok))
  \/ \E p \in Procs : Step(Analyze(p))
  \/ \E p \in Procs, response \in env.responses : Step(ProviderRespond(p, response))
  \/ \E p \in Procs, message \in env.errors : Step(ProviderError(p, message))
  \/ \E p \in Procs : Step(ProviderTimeout(p))
  \/ \E p \in Procs, ok \in BOOLEAN : Step(AnalyticsGet(p, ok))
  \/ \E p \in Procs, ok \in BOOLEAN : Step(AnalyticsSet(p, ok))
  \/ Step(StorageChanged)

Spec == Init /\ [][Next]_vars

(***************************************************************************)
(* SpecDedup: ANALYZE_PAGE messages for one (tab, url) pair, handled       *)
(* concurrently.                                                           *)
(***************************************************************************)
PageA == [tab |-> 1, url |-> "u1", content |-> TextA]
PageB == [tab |-> 1, url |-> "u2", content |-> TextA]
Answer75 == <<55, 53>>

InitDedup ==
  InitWith(Environment({PageA}, {Answer75}, {"HTTP 500"}, {}),
           DedupTriggers, DedupTriggers, 0, DedupFaults, 0)

NextDedup ==
  \/ \E p \in Procs, page \in env.pages : Step(Trigger(p, page))
  \/ \E p \in Procs, ok \in BOOLEAN : Step(ReadStore(p, ok))
  \/ \E p \in Procs, ok \in BOOLEAN : Step(WriteSettings(p, ok))
  \/ \E p \in Procs : Step(Analyze(p))
  \/ \E p \in Procs, response \in env.responses : Step(ProviderRespond(p, response))
  \/ \E p \in Procs, message \in env.errors : Step(ProviderError(p, message))
  \/ \E p \in Procs, ok \in BOOLEAN : Step(AnalyticsGet(p, ok))
  \/ \E p \in Procs, ok \in BOOLEAN : Step(AnalyticsSet(p, ok))
  \/ Step(StorageChanged)

SpecDedup == InitDedup /\ [][NextDedup]_vars

(***************************************************************************)
(* SpecLimit: analyses of two pages overlapping in time, around the        *)
(* rate limiter's interval.                                                *)
(***************************************************************************)
InitLimit ==
  InitWith(Environment({PageA, PageB}, {Answer75}, {}, {1, 2999}),
           LimitTriggers, LimitTriggers, LimitTicks, 0, 0)

NextLimit ==
  \/ \E d \in env.deltas : Step(Tick(d))
  \/ \E p \in Procs, page \in env.pages : Step(Trigger(p, page))
  \/ \E p \in Procs, ok \in BOOLEAN : Step(ReadStore(p, ok))
  \/ \E p \in Procs, ok \in BOOLEAN : Step(WriteSettings(p, ok))
  \/ \E p \in Procs : Step(Analyze(p))
  \/ \E p \in Procs, response \in env.responses : Step(ProviderRespond(p, response))
  \/ \E p \in Procs, ok \in BOOLEAN : Step(AnalyticsGet(p, ok))
  \/ \E p \in Procs, ok \in BOOLEAN : Step(AnalyticsSet(p, ok))
  \/ Step(StorageChanged)

SpecLimit == InitLimit /\ [][NextLimit]_vars

(***************************************************************************)
(* SpecOptions: one analysis and the options page saving settings.         *)
(***************************************************************************)
InitOptions ==
  InitWith(Environment({PageA}, {Answer75}, {}, {}), 1, OptionsTriggers, 0, 0,
           OptionsChanges)

NextOptions ==
  \/ \E p \in Procs, page \in env.pages : Step(Trigger(p, page))
  \/ \E p \in Procs, ok \in BOOLEAN : Step(ReadStore(p, ok))
  \/ \E p \in Procs, ok \in BOOLEAN : Step(WriteSettings(p, ok))
  \/ \E p \in Procs : Step(Analyze(p))
  \/ \E p \in Procs, response \in env.responses : Step(ProviderRespond(p, response))
  \/ \E p \in Procs, ok \in BOOLEAN : Step(AnalyticsGet(p, ok))
  \/ \E p \in Procs, ok \in BOOLEAN : Step(AnalyticsSet(p, ok))
  \/ Step(StorageChanged)
  \/ \E t \in UserThresholds : Step(handleThresholdChange(t))
  \/ \E e \in BOOLEAN : Step(handleExtensionToggle(e))
  \/ \E r \in UserRpms : Step(handleRateLimitChange(r))
  \/ Step(OptionsSaveRead)
  \/ Step(OptionsSaveWrite)

SpecOptions == InitOptions /\ [][NextOptions]_vars


(***************************************************************************)
(* SpecReplay: analyses of one page one after the other, with the clock    *)
(* moving past the rate limiter's interval and the cache's lifetime, and   *)
(* the options page changing the threshold in between.                     *)
(***************************************************************************)
Answer150 == <<49, 53, 48>>              \* "150"

InitReplay ==
  InitWith(Environment({PageA}, {Answer75, Answer150}, {"HTTP 500"},
                       {TIMEOUT, CACHE_DURATION}),
           1, ReplayTriggers, ReplayTicks, ReplayFaults, ReplayChanges)

NextReplay ==
  \/ \E d \in env.deltas : Step(Tick(d))
  \/ \E p \in Procs, page \in env.pages : Step(Trigger(p, page))
  \/ \E p \in Procs, ok \in BOOLEAN : Step(ReadStore(p, ok))
  \/ \E p \in Procs, ok \in BOOLEAN : Step(WriteSettings(p, ok))
  \/ \E p \in Procs : Step(Analyze(p))
  \/ \E p \in Procs, response \in env.responses : Step(ProviderRespond(p, response))
  \/ \E p \in Procs, message \in env.errors : Step(ProviderError(p, message))
  \/ \E p \in Procs : Step(ProviderTimeout(p))
  \/ \E p \in Procs, ok \in BOOLEAN : Step(AnalyticsGet(p, ok))
  \/ \E p \in Procs, ok \in BOOLEAN : Step(AnalyticsSet(p, ok))
  \/ Step(StorageChanged)
  \/ \E t \in UserThresholds : Step(handleThresholdChange(t))
  \/ Step(OptionsSaveRead)
  \/ Step(OptionsSaveWrite)

SpecReplay == InitReplay /\ [][NextReplay]_vars

(***************************************************************************)
(* SpecPure: Utils.isRateLimited and the success result of                 *)
(* analyzePageContent, applied to arguments drawn from their ranges.       *)
(***************************************************************************)
PureElapsed == {0, 1, 999, 1000, 2999, 3000, 3001, 8571, 8572, 59999, 60000}
PureRpms == {1, 7, DEFAULT_RPM, 60}
PureLast == {NoTime, 0, StartTime}
Scores == 0..MAX_SCORE

InitPure == InitWith(Environment({}, {}, {}, {}), 0, 0, 0, 0, 0)

Apply(call, value) ==
  /\ fnIn' = call
  /\ fnOut' = value
  /\ UNCHANGED <<now, env, budget, storeVars, bgSettings, pendingAnalyses,
                 cache, procs, sent, opt, orphans, stats, ops, contentAnalyzer>>

ApplyIsRateLimited(lastRequestTime, requestsPerMinute, elapsed) ==
  LET settings ==
        [DEFAULT_SETTINGS EXCEPT !.rateLimit =
           [requestsPerMinute |-> requestsPerMinute,
            lastRequestTime |-> lastRequestTime]]
      t == OrZero(lastRequestTime) + elapsed
  IN  Apply([NoCall EXCEPT !.fn = "isRateLimited", !.settings = settings,
                           !.now = t],
            [NoValue EXCEPT !.limited = isRateLimited(settings, t)])

ApplySuccessResult(confidence, threshold) ==
  LET settings == [DEFAULT_SETTINGS EXCEPT !.confidenceThreshold = threshold]
  IN  Apply([NoCall EXCEPT !.fn = "result", !.settings = settings,
                           !.confidence = confidence],
            [NoValue EXCEPT !.result = SuccessResult(confidence, settings, 0)])

\* generateCacheKey for one page under two goal lists
PureUrls == {<<>>, <<117>>, LocationHref}
PureContents == {<<>>, TextA, [i \in 1..(CONTENT_PREFIX + 20) |-> 97]}
PureGoalLists == {<<>>, <<GoalG>>, <<GoalK>>, <<GoalG, GoalK>>}

ApplyGenerateCacheKey(url, content, goals, others) ==
  Apply([NoCall EXCEPT !.fn = "generateCacheKey", !.url = url,
                       !.content = content, !.goals = goals, !.others = others],
        [NoValue EXCEPT !.key = generateCacheKey(url, content, goals),
                        !.otherKey = generateCacheKey(url, content, others)])

\* "The score is 83."
TextScore83 ==
  <<84, 104, 101, 32, 115, 99, 111, 114, 101, 32, 105, 115, 32, 56, 51, 46>>

\* the values parseConfidenceScore is applied to
PureTexts ==
  {TextScore83,
   <<78, 47, 65>>,                                   \* 'N/A'
   <<49, 53, 48>>,                                   \* '150'
   <<>>,                                             \* ''
   <<32, 55, 53, 32>>,                               \* ' 75 '
   <<49, 48, 48>>,                                   \* '100'
   <<48>>,                                           \* '0'
   <<49, 48, 49>>,                                   \* '101'
   <<55, 32, 111, 102, 32, 49, 53, 48>>,             \* '7 of 150'
   <<49, 53, 48, 32, 111, 114, 32, 55>>,             \* '150 or 7'
   <<45, 53>>,                                       \* '-5'
   <<51, 46, 57>>,                                   \* '3.9'
   <<32, 32, 32>>,                                   \* '   '
   <<48, 48, 55>>,                                   \* '007'
   <<115, 99, 111, 114, 101, 58, 32, 52, 50, 37, 10>>, \* 'score: 42%\n'
   <<57, 57, 57, 57, 57>>}                           \* '99999'

PureResponses ==
  {[isString |-> TRUE, text |-> text] : text \in PureTexts}
    \cup {[isString |-> FALSE, text |-> <<>>]}

ApplyParseConfidenceScore(response) ==
  Apply([NoCall EXCEPT !.fn = "parseConfidenceScore", !.response = response],
        [NoValue EXCEPT !.score = parseConfidenceScoreOf(response)])

(***************************************************************************)
(* LLMClient.validateCredentials (llm-client.js 338-356).  `fetched` is    *)
(* how the provider's credential request ends: fetch rejects (failed), or  *)
(* resolves with a response of some status.  The value is what the call    *)
(* gives its caller: an exception (threw) or { success, error }.           *)
(***************************************************************************)
\* createProvider (llm-client.js 222-233): `Unknown provider: <provider>`
createProvider(provider) ==
  IF provider \in KnownProviders THEN [threw |-> FALSE, message |-> ""]
  ELSE [threw |-> TRUE, message |-> "Unknown provider"]

\* validateCredentials of the three providers (llm-client.js 81-91,
\* 140-150, 191-208): response.ok, or false when fetch rejects
providerValidateCredentials(fetched) ==
  IF fetched.failed THEN FALSE ELSE fetched.status \in 200..299

\* a validation satisfied with any response
validateCredentialsAnyResponse(provider, apiKey, fetched) ==
  IF provider = "" \/ apiKey = "" THEN
    [threw |-> FALSE, success |-> FALSE, error |-> "Provider and API key required"]
  ELSE IF createProvider(provider).threw THEN
    [threw |-> FALSE, success |-> FALSE, error |-> createProvider(provider).message]
  ELSE IF ~fetched.failed THEN
    [threw |-> FALSE, success |-> TRUE, error |-> Undefined]
  ELSE [threw |-> FALSE, success |-> FALSE, error |-> "Invalid API credentials"]

validateCredentials(provider, apiKey, fetched) ==
  IF provider = "" \/ apiKey = "" THEN
    [threw |-> FALSE, success |-> FALSE, error |-> "Provider and API key required"]
  ELSE IF createProvider(provider).threw THEN
    [threw |-> FALSE, success |-> FALSE, error |-> createProvider(provider).message]
  ELSE IF providerValidateCredentials(fetched) THEN
    [threw |-> FALSE, success |-> TRUE, error |-> Undefined]
  ELSE [threw |-> FALSE, success |-> FALSE, error |-> "Invalid API credentials"]

PureProviders == KnownProviders \cup {"", "mistral"}
PureApiKeys == {"", "sk-or-key"}
PureFetched ==
  {[failed |-> TRUE, status |-> 0]}
    \cup {[failed |-> FALSE, status |-> s] : s \in {200, 204, 299, 300, 401, 500}}

ApplyValidateCredentials(provider, apiKey, fetched) ==
  Apply([NoCall EXCEPT !.fn = "validateCredentials", !.provider = provider,
                       !.apiKey = apiKey, !.fetched = fetched],
        [NoValue EXCEPT !.validation = validateCredentials(provider, apiKey, fetched)])

(***************************************************************************)
(* Utils.cleanTextContent (utils.js 9-34) applied to page texts: `length`  *)
(* code units, a space at each position of `blanks` and the letter 'w'     *)
(* elsewhere.                                                              *)
(***************************************************************************)
Filled(length, blanks) ==
  [i \in 1..length |-> IF i \in blanks THEN Space ELSE 119]

EveryNth(length, n) == {i \in 1..length : i % n = 0}

LongLength == 10000

PureRawTexts ==
  {<<>>,
   <<32, 97, 32, 32, 98, 10, 9, 99, 13, 10, 100, 32>>,   \* ' a  b\n\tc\r\nd '
   Filled(MAX_CONTENT_LENGTH, {}),
   Filled(MAX_CONTENT_LENGTH, EveryNth(MAX_CONTENT_LENGTH, 6)),
   Filled(MAX_CONTENT_LENGTH + 1, {}),
   Filled(MAX_CONTENT_LENGTH + 1, {MAX_CONTENT_LENGTH + 1}),
   Filled(MAX_CONTENT_LENGTH + 1, {MAX_CONTENT_LENGTH}),
   Filled(MAX_CONTENT_LENGTH + 2, {MAX_CONTENT_LENGTH + 1}),
   Filled(MAX_CONTENT_LENGTH + 1, {3201}),
   Filled(MAX_CONTENT_LENGTH + 1, {3202}),
   Filled(MAX_CONTENT_LENGTH + 1, {100, 3202, 3900}),
   Filled(MAX_CONTENT_LENGTH + 100, 10..200),
   Filled(MAX_CONTENT_LENGTH + 100, {1, 2, 3, 3500, 3501, 3502}),
   Filled(LongLength, {100}),
   Filled(LongLength, EveryNth(LongLength, 7))}

PureRawValues ==
  {[isString |-> TRUE, text |-> text] : text \in PureRawTexts}
    \cup {[isString |-> FALSE, text |-> <<>>]}

ApplyCleanTextContent(value) ==
  Apply([NoCall EXCEPT !.fn = "cleanTextContent", !.raw = value],
        [NoValue EXCEPT !.cleaned = cleanTextContent(value)])

\* each behaviour applies one function once
NextPure ==
  \/ /\ fnIn = NoCall
     /\ \E last \in PureLast, rpm \in PureRpms, elapsed \in PureElapsed :
          ApplyIsRateLimited(last, rpm, elapsed)
  \/ /\ fnIn = NoCall
     /\ \E c \in Scores, t \in Scores : ApplySuccessResult(c, t)
  \/ /\ fnIn = NoCall
     /\ \E url \in PureUrls, content \in PureContents,
           goals \in PureGoalLists, others \in PureGoalLists :
          ApplyGenerateCacheKey(url, content, goals, others)
  \/ /\ fnIn = NoCall
     /\ \E response \in PureResponses : ApplyParseConfidenceScore(response)
  \/ /\ fnIn = NoCall
     /\ \E provider \in PureProviders, apiKey \in PureApiKeys,
           fetched \in PureFetched :
          ApplyValidateCredentials(provider, apiKey, fetched)
  \/ /\ fnIn = NoCall
     /\ \E value \in PureRawValues : ApplyCleanTextContent(value)

SpecPure == InitPure /\ [][NextPure]_vars

(***************************************************************************)
(* SpecCache: analyses of two pages one after the other, with the clock    *)
(* moving inside and past the cache's lifetime, the cache swept, and the   *)
(* user changing the goals, the API key or the cache switch in between.    *)
(***************************************************************************)
InitCache ==
  InitWith(Environment({PageA, PageB}, {Answer75}, {}, {TIMEOUT, CACHE_DURATION}),
           1, CacheTriggers, CacheTicks, 0, CacheChanges)

NextCache ==
  \/ \E d \in env.deltas : Step(Tick(d))
  \/ \E p \in Procs, page \in env.pages : Step(Trigger(p, page))
  \/ \E p \in Procs, ok \in BOOLEAN : Step(ReadStore(p, ok))
  \/ \E p \in Procs, ok \in BOOLEAN : Step(WriteSettings(p, ok))
  \/ \E p \in Procs : Step(Analyze(p))
  \/ \E p \in Procs, response \in env.responses : Step(ProviderRespond(p, response))
  \/ \E p \in Procs, ok \in BOOLEAN : Step(AnalyticsGet(p, ok))
  \/ \E p \in Procs, ok \in BOOLEAN : Step(AnalyticsSet(p, ok))
  \/ Step(StorageChanged)
  \/ Step(getCacheStats)
  \/ \E goals \in UserGoalLists : Step(setGoals(goals))
  \/ \E apiKey \in UserApiKeys : Step(handleApiKeyChange(apiKey))
  \/ \E enableCache \in BOOLEAN : Step(handleCacheToggle(enableCache))
  \/ Step(OptionsSaveRead)
  \/ Step(OptionsSaveWrite)

SpecCache == InitCache /\ [][NextCache]_vars

(***************************************************************************)
(* SpecTimeout: analyses of one page whose provider may answer, reject,    *)
(* answer late or never answer.  The timer of the race (setTimeout,        *)
(* llm-client.js 291-293) is armed when the request is dispatched and the  *)
(* background page's event loop runs it: weak fairness of ProviderTimeout. *)
(***************************************************************************)
\* the provider's texts: "75", "", "n/a", "150"
TimeoutResponses == {Answer75, <<>>, <<110, 47, 97>>, Answer150}

InitTimeout ==
  InitWith(Environment({PageA}, TimeoutResponses, {"Failed to fetch"}, {TIMEOUT}),
           1, TimeoutTriggers, TimeoutTicks, 0, 0)

NextTimeout ==
  \/ \E d \in env.deltas : Step(Tick(d))
  \/ \E p \in Procs, page \in env.pages : Step(Trigger(p, page))
  \/ \E p \in Procs, ok \in BOOLEAN : Step(ReadStore(p, ok))
  \/ \E p \in Procs, ok \in BOOLEAN : Step(WriteSettings(p, ok))
  \/ \E p \in Procs : Step(Analyze(p))
  \/ \E p \in Procs, response \in env.responses : Step(ProviderRespond(p, response))
  \/ \E p \in Procs, message \in env.errors : Step(ProviderError(p, message))
  \/ \E p \in Procs : Step(ProviderTimeout(p))
  \/ \E p \in Procs, ok \in BOOLEAN : Step(AnalyticsGet(p, ok))
  \/ \E p \in Procs, ok \in BOOLEAN : Step(AnalyticsSet(p, ok))
  \/ \E response \in env.responses : LateResponse(response)

SpecTimeout ==
  /\ InitTimeout
  /\ [][NextTimeout]_vars
  /\ \A p \in Procs : WF_vars(Step(ProviderTimeout(p)))

(***************************************************************************)
(* StorageManager.updateAnalytics(updates) (storage.js 144-163) outside    *)
(* handlePageAnalysis: the counters read by getAnalytics, then the sum     *)
(* stored by chrome.storage.sync.set.                                      *)
(***************************************************************************)
AddCounters(analytics, updates) ==
  [key \in DOMAIN analytics |-> analytics[key] + updates[key]]

Negated(analytics) == [key \in DOMAIN analytics |-> 0 - analytics[key]]

StatsUnchanged ==
  UNCHANGED <<now, env, storeSettings, storeGoals, changeEvents, bgSettings,
              pendingAnalyses, cache, procs, opt, fnVars, contentAnalyzer, orphans, ops>>

(***************************************************************************)
(* OptionsController.loadData (options.js 116-122): the page takes the     *)
(* stored counters as this.analytics.                                      *)
(***************************************************************************)
loadData ==
  /\ budget.changes > 0
  /\ stats.reset.pc = "idle"
  /\ budget' = [budget EXCEPT !.changes = @ - 1]
  /\ stats' = [stats EXCEPT !.analytics = storeAnalytics]
  /\ Quiet
  /\ UNCHANGED storeAnalytics
  /\ StatsUnchanged

(***************************************************************************)
(* OptionsController.resetStatistics (options.js 668-687): the user        *)
(* confirms, updateAnalytics is called with the page's counters negated    *)
(* and reads the store ...                                                 *)
(***************************************************************************)
resetStatistics ==
  /\ budget.changes > 0
  /\ stats.reset.pc = "idle"
  /\ budget' = [budget EXCEPT !.changes = @ - 1]
  /\ stats' = [stats EXCEPT !.reset =
       [pc |-> "set", ana |-> storeAnalytics,
        updates |-> Negated(stats.analytics)]]
  /\ Quiet
  /\ UNCHANGED storeAnalytics
  /\ StatsUnchanged

\* ... the sum is stored and the page's counters are set to 0
resetStatisticsDone ==
  /\ stats.reset.pc = "set"
  /\ storeAnalytics' = AddCounters(stats.reset.ana, stats.reset.updates)
  /\ stats' = [stats EXCEPT !.reset = IdleUpdate, !.analytics = ZeroAnalytics,
                            !.resets = @ + 1]
  /\ Quiet
  /\ UNCHANGED budget
  /\ StatsUnchanged

(***************************************************************************)
(* BackgroundService.handlePageBypass (background.js 206-229):             *)
(* updateAnalytics({bypassedPages: 1}) reads the store ...                 *)
(***************************************************************************)
handlePageBypass ==
  /\ budget.changes > 0
  /\ stats.bypass.pc = "idle"
  /\ budget' = [budget EXCEPT !.changes = @ - 1]
  /\ stats' = [stats EXCEPT !.bypass =
       [pc |-> "set", ana |-> storeAnalytics,
        updates |-> [ZeroAnalytics EXCEPT !.bypassedPages = 1]]]
  /\ Quiet
  /\ UNCHANGED storeAnalytics
  /\ StatsUnchanged

\* ... and stores the sum
handlePageBypassDone ==
  /\ stats.bypass.pc = "set"
  /\ storeAnalytics' = AddCounters(stats.bypass.ana, stats.bypass.updates)
  /\ stats' = [stats EXCEPT !.bypass = IdleUpdate]
  /\ Quiet
  /\ UNCHANGED budget
  /\ StatsUnchanged

\* the invocations analyzePageContent returns to in the step taken
Returning == {p \in Procs : procs[p].pc # "anaGet" /\ procs'[p].pc = "anaGet"}

\* a step of the analysis, counted
Counted(A) ==
  /\ A
  /\ orphans' = orphans + Cardinality(TimedOut)
  /\ stats' = [stats EXCEPT
       !.returned = @ + Cardinality(Returning),
       !.blocking = @ + Cardinality({p \in Returning :
                                      procs'[p].result.shouldBlock})]
  /\ UNCHANGED <<env, fnVars, contentAnalyzer, ops>>

(***************************************************************************)
(* SpecStats: analyses of two pages under way together, bypasses, and the  *)
(* options page loading and resetting the statistics.                      *)
(***************************************************************************)
InitStatsSpec ==
  InitWith(Environment({PageA, PageB}, {Answer75}, {}, {TIMEOUT}),
           StatsWidth, StatsTriggers, StatsTicks, 0, StatsChanges)

NextStats ==
  \/ \E d \in env.deltas : Counted(Tick(d))
  \/ \E p \in Procs, page \in env.pages : Counted(Trigger(p, page))
  \/ \E p \in Procs, ok \in BOOLEAN : Counted(ReadStore(p, ok))
  \/ \E p \in Procs, ok \in BOOLEAN : Counted(WriteSettings(p, ok))
  \/ \E p \in Procs : Counted(Analyze(p))
  \/ \E p \in Procs, response \in env.responses :
       Counted(ProviderRespond(p, response))
  \/ \E p \in Procs, ok \in BOOLEAN : Counted(AnalyticsGet(p, ok))
  \/ \E p \in Procs, ok \in BOOLEAN : Counted(AnalyticsSet(p, ok))
  \/ loadData
  \/ resetStatistics
  \/ resetStatisticsDone
  \/ handlePageBypass
  \/ handlePageBypassDone

SpecStats == InitStatsSpec /\ [][NextStats]_vars

(***************************************************************************)
(* Calls of StorageManager made by the popup and the options page.         *)
(***************************************************************************)
CallStarts(c, call) ==
  /\ ops.calls[c].pc = "idle"
  /\ \A d \in Calls : d < c => ops.calls[d].pc # "idle"
  /\ budget.changes > 0
  /\ budget' = [budget EXCEPT !.changes = @ - 1]
  /\ ops' = [ops EXCEPT !.calls[c] = call]

CallEnds(c, outcome, error) ==
  [ops.calls[c] EXCEPT !.pc = "idle", !.outcome = outcome, !.error = error]

GoalsEvents(goals) ==
  IF goals = storeGoals THEN changeEvents
  ELSE Append(changeEvents, [key |-> "goals", newValue |-> goals])

OpsUnchanged ==
  /\ Quiet
  /\ UNCHANGED <<now, env, bgSettings, pendingAnalyses, cache, procs, opt,
                 fnVars, contentAnalyzer, orphans, stats, storeAnalytics>>

(***************************************************************************)
(* StorageManager.addGoal (storage.js 42-73): getGoals is served ...       *)
(***************************************************************************)
addGoal(c, goalText) ==
  /\ CallStarts(c, [IdleCall EXCEPT !.fn = "addGoal", !.pc = "got",
                                    !.text = goalText, !.goals = storeGoals])
  /\ UNCHANGED <<storeSettings, storeGoals, changeEvents>>
  /\ OpsUnchanged

\* ... the text and the count are validated, the new goal is pushed and
\* setGoals stores the list
addGoalDone(c) ==
  /\ ops.calls[c].pc = "got"
  /\ ops.calls[c].fn = "addGoal"
  /\ LET goalText == ops.calls[c].text
         goals == ops.calls[c].goals
         newGoal == [id |-> ops.nextId, text |-> Trim(goalText),
                     createdAt |-> now, isActive |-> TRUE]
     IN
     IF Trim(goalText) = <<>> THEN
       /\ ops' = [ops EXCEPT !.calls[c] =
            CallEnds(c, "threw", "Goal text cannot be empty")]
       /\ UNCHANGED <<storeGoals, changeEvents>>
     ELSE IF Len(goalText) > MAX_GOAL_LENGTH THEN
       /\ ops' = [ops EXCEPT !.calls[c] =
            CallEnds(c, "threw", "Goal text cannot exceed 200 characters")]
       /\ UNCHANGED <<storeGoals, changeEvents>>
     ELSE IF Len(goals) >= MAX_GOALS_COUNT THEN
       /\ ops' = [ops EXCEPT !.calls[c] =
            CallEnds(c, "threw", "Cannot exceed 10 goals")]
       /\ UNCHANGED <<storeGoals, changeEvents>>
     ELSE
       /\ storeGoals' = Append(goals, newGoal)
       /\ changeEvents' = GoalsEvents(Append(goals, newGoal))
       /\ ops' = [ops EXCEPT !.calls[c] = CallEnds(c, "returned", ""),
                             !.nextId = @ + 1]
  /\ UNCHANGED <<budget, storeSettings>>
  /\ OpsUnchanged

(***************************************************************************)
(* StorageManager.removeGoal (storage.js 78-88): getGoals is served ...    *)
(***************************************************************************)
removeGoal(c, goalId) ==
  /\ CallStarts(c, [IdleCall EXCEPT !.fn = "removeGoal", !.pc = "got",
                                    !.id = goalId, !.goals = storeGoals])
  /\ UNCHANGED <<storeSettings, storeGoals, changeEvents>>
  /\ OpsUnchanged

HasOtherId(goal, goalId) == goal.id # goalId

\* goals.filter(goal => goal.id !== goalId)
RECURSIVE WithoutId(_, _)
WithoutId(goals, goalId) ==
  IF goals = <<>> THEN <<>>
  ELSE IF HasOtherId(Head(goals), goalId)
       THEN <<Head(goals)>> \o WithoutId(Tail(goals), goalId)
       ELSE WithoutId(Tail(goals), goalId)

\* ... and setGoals stores the list without the goal
removeGoalDone(c) ==
  /\ ops.calls[c].pc = "got"
  /\ ops.calls[c].fn = "removeGoal"
  /\ LET filteredGoals == WithoutId(ops.calls[c].goals, ops.calls[c].id) IN
       /\ storeGoals' = filteredGoals
       /\ changeEvents' = GoalsEvents(filteredGoals)
  /\ ops' = [ops EXCEPT !.calls[c] = CallEnds(c, "returned", "")]
  /\ UNCHANGED <<budget, storeSettings>>
  /\ OpsUnchanged

(***************************************************************************)
(* StorageManager.importData (storage.js 216-237): data.goals, when an     *)
(* array, is stored by setGoals as it is; data.settings follows.           *)
(***************************************************************************)
importData(c, data) ==
  /\ CallStarts(c, [IdleCall EXCEPT
         !.fn = "importData", !.data = data,
         !.pc = IF data.hasSettings THEN "settings" ELSE "idle",
         !.outcome = IF data.hasSettings THEN "none" ELSE "returned"])
  /\ IF data.hasGoals THEN
       /\ storeGoals' = data.goals
       /\ changeEvents' = GoalsEvents(data.goals)
     ELSE UNCHANGED <<storeGoals, changeEvents>>
  /\ UNCHANGED storeSettings
  /\ OpsUnchanged

(***************************************************************************)
(* SpecGoals: the goal list edited from the pages, two calls at a time,    *)
(* starting from an empty list or from nine goals.                         *)
(***************************************************************************)
StoredGoal(id) ==
  [id |-> id, text |-> TextA, createdAt |-> StartTime, isActive |-> TRUE]

NineGoals == [i \in 1..(MAX_GOALS_COUNT - 1) |-> StoredGoal(i)]

\* goal texts typed: "a", " a ", "", " ", 200 and 201 letters
GoalTexts ==
  {TextA, <<32, 97, 32>>, <<>>, <<32>>,
   [i \in 1..MAX_GOAL_LENGTH |-> 97], [i \in 1..(MAX_GOAL_LENGTH + 1) |-> 97]}

\* backup files: eleven goals; one goal with an empty text
ImportedGoals ==
  {[i \in 1..(MAX_GOALS_COUNT + 1) |-> StoredGoal(i)],
   <<[StoredGoal(1) EXCEPT !.text = <<>>]>>}

GoalsData == {[NoData EXCEPT !.hasGoals = TRUE, !.goals = goals] :
                goals \in ImportedGoals}

InitGoals ==
  /\ now = StartTime
  /\ env = Environment({}, {}, {}, {})
  /\ budget = [width |-> 0, triggers |-> 0, ticks |-> 0, faults |-> 0,
               changes |-> GoalsChanges]
  /\ storeSettings = DEFAULT_SETTINGS
  /\ storeGoals \in {<<>>, NineGoals}
  /\ storeAnalytics = ZeroAnalytics
  /\ changeEvents = <<>>
  /\ bgSettings = storeSettings
  /\ pendingAnalyses = {}
  /\ cache = <<>>
  /\ procs = [p \in Procs |-> IdleProc]
  /\ sent = NothingSent
  /\ opt = [settings |-> storeSettings, timer |-> NoUpdates, save |-> IdleSave,
            saved |-> NoUpdates]
  /\ fnIn = NoCall
  /\ fnOut = NoValue
  /\ orphans = 0
  /\ stats = InitStats
  /\ ops = InitOps
  /\ contentAnalyzer = InitTab

NextGoals ==
  \/ \E c \in Calls, goalText \in GoalTexts : addGoal(c, goalText)
  \/ \E c \in Calls : addGoalDone(c)
  \/ \E c \in Calls, goalId \in 1..MAX_GOALS_COUNT : removeGoal(c, goalId)
  \/ \E c \in Calls : removeGoalDone(c)
  \/ \E c \in Calls, data \in GoalsData : importData(c, data)
  \/ Step(StorageChanged)

SpecGoals == InitGoals /\ [][NextGoals]_vars

(***************************************************************************)
(* StorageManager.exportData (storage.js 192-211): goals, settings and     *)
(* analytics are read and returned, the settings with apiKey ''.           *)
(***************************************************************************)
exportData(c) ==
  /\ CallStarts(c, [IdleCall EXCEPT
         !.fn = "exportData", !.outcome = "returned",
         !.value = [hasGoals |-> TRUE, goals |-> storeGoals,
                    hasSettings |-> TRUE,
                    settings |-> Spread(Spread(DEFAULT_SETTINGS, storeSettings),
                                        [apiKey |-> ""])]])
  /\ UNCHANGED <<storeSettings, storeGoals, changeEvents>>
  /\ OpsUnchanged

(***************************************************************************)
(* importData's setSettings(settingsToImport) (storage.js 226-230,         *)
(* 109-122): getSettings is served (the defaults when the get fails) ...   *)
(***************************************************************************)
importSettingsGet(c, ok) ==
  /\ ops.calls[c].pc = "settings"
  /\ Storage(ok)
  /\ ops' = [ops EXCEPT !.calls[c] =
       [@ EXCEPT !.pc = "write",
                 !.settings = IF ok THEN Spread(DEFAULT_SETTINGS, storeSettings)
                              ELSE DEFAULT_SETTINGS]]
  /\ UNCHANGED <<storeSettings, storeGoals, changeEvents>>
  /\ OpsUnchanged

\* const { apiKey, ...settingsToImport } = data.settings
WithoutApiKey(settings) ==
  [key \in DOMAIN settings \ {"apiKey"} |-> settings[key]]

\* an import that takes the file's settings whole
importSettingsSetWithKey(c, ok) ==
  /\ ops.calls[c].pc = "write"
  /\ Storage(ok)
  /\ IF ok THEN
       LET updatedSettings ==
             Spread(ops.calls[c].settings, ops.calls[c].data.settings)
       IN  /\ storeSettings' = updatedSettings
           /\ changeEvents' = EventsAfterSet(updatedSettings)
           /\ ops' = [ops EXCEPT !.calls[c] = CallEnds(c, "returned", "")]
     ELSE
       /\ ops' = [ops EXCEPT !.calls[c] = CallEnds(c, "threw", "storage set failed")]
       /\ UNCHANGED <<storeSettings, changeEvents>>
  /\ UNCHANGED storeGoals
  /\ OpsUnchanged

\* ... and the read settings with the imported fields over them are stored
importSettingsSet(c, ok) ==
  /\ ops.calls[c].pc = "write"
  /\ Storage(ok)
  /\ IF ok THEN
       LET updatedSettings ==
             Spread(ops.calls[c].settings,
                    WithoutApiKey(ops.calls[c].data.settings))
       IN  /\ storeSettings' = updatedSettings
           /\ changeEvents' = EventsAfterSet(updatedSettings)
           /\ ops' = [ops EXCEPT !.calls[c] = CallEnds(c, "returned", "")]
     ELSE
       /\ ops' = [ops EXCEPT !.calls[c] = CallEnds(c, "threw", "storage set failed")]
       /\ UNCHANGED <<storeSettings, changeEvents>>
  /\ UNCHANGED storeGoals
  /\ OpsUnchanged

(***************************************************************************)
(* SpecBackup: exports and imports of the settings, the imported file      *)
(* being an earlier export or a file carrying a key, while the options     *)
(* page changes the API key.                                               *)
(***************************************************************************)
BackupKeys == {"sk-or-new"}

\* a backup file whose settings carry an API key
ForeignData ==
  [NoData EXCEPT !.hasSettings = TRUE,
                 !.settings = [enabled |-> FALSE, apiKey |-> "sk-or-file"]]

Exported == {ops.calls[c].value : c \in {d \in Calls : ops.calls[d].fn = "exportData"}}

InitBackup ==
  InitWith(Environment({}, {}, {}, {}), 0, 0, 0, BackupFaults, BackupChanges)

NextBackup ==
  \/ \E c \in Calls : exportData(c)
  \/ \E c \in Calls, data \in {ForeignData} \cup Exported : importData(c, data)
  \/ \E c \in Calls, ok \in BOOLEAN : importSettingsGet(c, ok)
  \/ \E c \in Calls, ok \in BOOLEAN : importSettingsSet(c, ok)
  \/ \E apiKey \in BackupKeys : Step(handleApiKeyChange(apiKey))
  \/ Step(OptionsSaveRead)
  \/ Step(OptionsSaveWrite)
  \/ Step(StorageChanged)

SpecBackup == InitBackup /\ [][NextBackup]_vars


(***************************************************************************)
(* SpecSave: the options page alone.  The user changes fields; each change *)
(* goes through debouncedSave (options.js 760-776), whose timer, once      *)
(* fired, has setSettings store the updates it was given.                  *)
(***************************************************************************)
Asking(A) ==
  /\ A
  /\ ops' = [ops EXCEPT !.asked = Spread(@, opt'.timer)]
  /\ UNCHANGED <<env, fnVars, contentAnalyzer, stats, orphans>>

InitSave == InitWith(Environment({}, {}, {}, {}), 0, 0, 0, 0, SaveChanges)

NextSave ==
  \/ \E t \in UserThresholds : Asking(handleThresholdChange(t))
  \/ \E e \in BOOLEAN : Asking(handleExtensionToggle(e))
  \/ \E r \in UserRpms : Asking(handleRateLimitChange(r))
  \/ \E c \in BOOLEAN : Asking(handleCacheToggle(c))
  \/ Step(OptionsSaveRead)
  \/ Step(OptionsSaveWrite)
  \/ Step(StorageChanged)

SpecSave == InitSave /\ [][NextSave]_vars


(***************************************************************************)
(* OpenRouterProvider.makeRequest (llm-client.js 51-79) in its two awaits: *)
(* fetch resolves with the HTTP response, whatever its status; then        *)
(* handleResponse (24-30) throws `HTTP <status>: <body>` when the status   *)
(* is not 2xx, and otherwise gives the parsed body, of which makeRequest   *)
(* returns choices[0].message.content.  A response is its status, its body *)
(* text (of an error) and that content (of a completion).                  *)
(***************************************************************************)
HttpResponses ==
  {[status |-> 200, body |-> "", content |-> Answer75],
   [status |-> 401, body |-> "No auth credentials found", content |-> <<>>],
   [status |-> 500, body |-> "Internal Server Error", content |-> <<>>],
   [status |-> 500, body |-> "overloaded", content |-> <<>>]}

\* Response.ok
HttpOk(response) == response.status \in 200..299

\* the template literal `HTTP ${response.status}: ${errorText}` over the
\* responses above
HttpErrorMessage(status, errorText) ==
  CASE status = 401 /\ errorText = "No auth credentials found" ->
         "HTTP 401: No auth credentials found"
    [] status = 500 /\ errorText = "Internal Server Error" ->
         "HTTP 500: Internal Server Error"
    [] status = 500 /\ errorText = "overloaded" -> "HTTP 500: overloaded"

\* a handleResponse that parses the body whatever the status
handleResponseUnchecked(response) ==
  [threw |-> FALSE, message |-> "", content |-> response.content]

handleResponse(response) ==
  IF ~HttpOk(response) THEN
    [threw |-> TRUE,
     message |-> HttpErrorMessage(response.status, response.body),
     content |-> <<>>]
  ELSE [threw |-> FALSE, message |-> "", content |-> response.content]

\* fetch resolves
FetchCompletes(p, response) ==
  /\ procs[p].pc = "fetch"
  /\ procs[p].http = NoHttp
  /\ procs' = [procs EXCEPT ![p] = [@ EXCEPT !.http = response]]
  /\ Quiet
  /\ UNCHANGED <<now, budget, storeVars, bgSettings, pendingAnalyses, cache, opt>>

\* fetch rejects: the request failed at network level
FetchFails(p, message) ==
  /\ procs[p].http = NoHttp
  /\ ProviderError(p, message)

\* handleResponse has run on the response and makeRequest settles
HandleResponse(p) ==
  /\ procs[p].http # NoHttp
  /\ LET data == handleResponse(procs[p].http) IN
       IF data.threw THEN ProviderError(p, data.message)
       ELSE ProviderRespond(p, data.content)

InitHttp ==
  InitWith(Environment({PageA}, HttpResponses, {"Failed to fetch"}, {}),
           HttpWidth, HttpTriggers, 0, 0, 0)

NextHttp ==
  \/ \E p \in Procs, page \in env.pages : Step(Trigger(p, page))
  \/ \E p \in Procs, ok \in BOOLEAN : Step(ReadStore(p, ok))
  \/ \E p \in Procs, ok \in BOOLEAN : Step(WriteSettings(p, ok))
  \/ \E p \in Procs : Step(Analyze(p))
  \/ \E p \in Procs, response \in env.responses : Step(FetchCompletes(p, response))
  \/ \E p \in Procs, message \in env.errors : Step(FetchFails(p, message))
  \/ \E p \in Procs : Step(HandleResponse(p))
  \/ \E p \in Procs : Step(ProviderTimeout(p))
  \/ \E p \in Procs, ok \in BOOLEAN : Step(AnalyticsGet(p, ok))
  \/ \E p \in Procs, ok \in BOOLEAN : Step(AnalyticsSet(p, ok))

SpecHttp == InitHttp /\ [][NextHttp]_vars


(***************************************************************************)
(* SpecStream: ANALYZE_PAGE messages for one page arriving one after the   *)
(* other, spaced closer than the rate limiter's interval.  Each step       *)
(* records when the latest message arrived and when the latest provider    *)
(* request was issued (llm-client.js 288-294).                             *)
(***************************************************************************)
Issuing == {p \in Procs : procs[p].pc # "fetch" /\ procs'[p].pc = "fetch"}

Timed(A) ==
  /\ A
  /\ orphans' = orphans + Cardinality(TimedOut)
  /\ stats' = [stats EXCEPT
       !.arrived = IF budget'.triggers < budget.triggers THEN now ELSE @,
       !.issued = IF Issuing # {} THEN now ELSE @]
  /\ UNCHANGED <<env, fnVars, contentAnalyzer, ops>>

InitStream ==
  InitWith(Environment({PageA}, {Answer75}, {}, {StreamSpacing}),
           1, StreamTriggers, StreamTicks, 0, 0)

NextStream ==
  \/ \E d \in env.deltas : Timed(Tick(d))
  \/ \E p \in Procs, page \in env.pages : Timed(Trigger(p, page))
  \/ \E p \in Procs, ok \in BOOLEAN : Timed(ReadStore(p, ok))
  \/ \E p \in Procs, ok \in BOOLEAN : Timed(WriteSettings(p, ok))
  \/ \E p \in Procs : Timed(Analyze(p))
  \/ \E p \in Procs, response \in env.responses : Timed(ProviderRespond(p, response))
  \/ \E p \in Procs, ok \in BOOLEAN : Timed(AnalyticsGet(p, ok))
  \/ \E p \in Procs, ok \in BOOLEAN : Timed(AnalyticsSet(p, ok))

SpecStream == InitStream /\ [][NextStream]_vars


(***************************************************************************)
(* The Firefox background service (service-worker.js 600-930).  Its        *)
(* handlePageAnalysis (697-790) is the code of background.js; initialize   *)
(* (612-640) registers the message listener only, no storage.onChanged     *)
(* listener, so the service's settings change when it reads or writes the  *)
(* store itself and not otherwise.                                         *)
(***************************************************************************)
\* TOGGLE_EXTENSION (service-worker.js 819-830): setSettings({ enabled }),
\* then this.settings = getSettings(), its awaits taken with no other
\* handler in between
backgroundHandleExtensionToggle(enabled) ==
  /\ budget.changes > 0
  /\ budget' = [budget EXCEPT !.changes = @ - 1]
  /\ LET updatedSettings ==
           Spread(Spread(DEFAULT_SETTINGS, storeSettings), [enabled |-> enabled])
     IN  /\ storeSettings' = updatedSettings
         /\ changeEvents' = EventsAfterSet(updatedSettings)
         /\ bgSettings' = updatedSettings
  /\ Quiet
  /\ UNCHANGED <<now, storeGoals, storeAnalytics, pendingAnalyses, cache, procs, opt>>

\* UPDATE_SETTINGS (service-worker.js 874-884): this.settings is what
\* setSettings(payload) returns
handleUpdateSettings(payload) ==
  /\ budget.changes > 0
  /\ budget' = [budget EXCEPT !.changes = @ - 1]
  /\ LET updatedSettings == Spread(Spread(DEFAULT_SETTINGS, storeSettings), payload)
     IN  /\ storeSettings' = updatedSettings
         /\ changeEvents' = EventsAfterSet(updatedSettings)
         /\ bgSettings' = updatedSettings
  /\ Quiet
  /\ UNCHANGED <<now, storeGoals, storeAnalytics, pendingAnalyses, cache, procs, opt>>

InitFirefox ==
  InitWith(Environment({PageA}, {Answer75}, {}, {}), 1, FirefoxTriggers, 0, 0,
           FirefoxChanges)

NextFirefox ==
  \/ \E p \in Procs, page \in env.pages : Step(Trigger(p, page))
  \/ \E p \in Procs, ok \in BOOLEAN : Step(ReadStore(p, ok))
  \/ \E p \in Procs, ok \in BOOLEAN : Step(WriteSettings(p, ok))
  \/ \E p \in Procs : Step(Analyze(p))
  \/ \E p \in Procs, response \in env.responses : Step(ProviderRespond(p, response))
  \/ \E p \in Procs, ok \in BOOLEAN : Step(AnalyticsGet(p, ok))
  \/ \E p \in Procs, ok \in BOOLEAN : Step(AnalyticsSet(p, ok))
  \/ \E e \in BOOLEAN : Step(backgroundHandleExtensionToggle(e))
  \/ \E e \in BOOLEAN : Step(handleUpdateSettings([enabled |-> e]))
  \/ \E e \in BOOLEAN : Step(handleExtensionToggle(e))
  \/ Step(OptionsSaveRead)
  \/ Step(OptionsSaveWrite)

SpecFirefox == InitFirefox /\ [][NextFirefox]_vars

\* ---- the content script's handlers ----

TabEvents == 6
TabTimers == 2

\* what a handler of the content script leaves alone
TabUnchanged ==
  UNCHANGED <<now, env, budget, storeVars, bgSettings, pendingAnalyses, cache,
              procs, sent, opt, fnVars, orphans, stats, ops>>

\* one more handler of the content script has run
TabEvent(t) ==
  /\ contentAnalyzer.events < TabEvents
  /\ contentAnalyzer' = [t EXCEPT !.events = contentAnalyzer.events + 1]
  /\ TabUnchanged

\* scheduleAnalysis(): starts a timer of ANALYSIS_DELAY
scheduleAnalysis ==
  /\ contentAnalyzer.timers < TabTimers
  /\ TabEvent([contentAnalyzer EXCEPT !.timers = @ + 1])

\* the callback of the timer of scheduleAnalysis
AnalysisTimerFires ==
  /\ contentAnalyzer.timers > 0
  /\ LET fired == [contentAnalyzer EXCEPT !.timers = @ - 1]
     IN  TabEvent(IF ~fired.isAnalyzing /\ ~fired.isBlocked
                  THEN analyzeCurrentPage(fired)
                  ELSE fired)

\* a result arrives: the response callback of analyzeCurrentPage or an
\* ANALYSIS_RESULT message to handleMessage
AnalysisResultArrives(result) == TabEvent(handleAnalysisResult(contentAnalyzer, result))

\* the bypass button is clicked, or a BYPASS_PAGE message reaches
\* handleMessage
BypassClicked == TabEvent(handleBypass(contentAnalyzer))

\* the page's own scripts rewrite the body while it is shown
PageRewrites(html) ==
  /\ ~contentAnalyzer.body.overlay
  /\ html # contentAnalyzer.body.html
  /\ TabEvent([contentAnalyzer EXCEPT !.body = Body(html, FALSE)])

InitContent == InitWith(Environment({PageA}, {}, {}, {}), 0, 0, 0, 0, 0)

NextContent ==
  \/ scheduleAnalysis
  \/ AnalysisTimerFires
  \/ \E result \in TabResults : AnalysisResultArrives(result)
  \/ BypassClicked
  \/ \E html \in PageContents : PageRewrites(html)

SpecContent == InitContent /\ [][NextContent]_vars

(***************************************************************************)
(* Properties.                                                             *)
(***************************************************************************)
\* analyzePageContent has returned to handlePageAnalysis
Returned(p) == procs[p].pc \in {"anaGet", "anaSet"}

FailOpen(result) == result.shouldBlock = FALSE /\ result.confidence = 0

Configured(settings) == settings.provider # "" /\ settings.apiKey # ""

\* the step taken is invocation p leaving the entry stretch of
\* analyzePageContent
AnalyzeStep(p) == procs[p].pc = "analyze" /\ procs'[p].pc # "analyze"

\* the cache key of invocation p
KeyOf(p) ==
  generateCacheKey(LocationHref, procs[p].content, ActiveGoals(procs[p].goals))

(***************************************************************************)
(* C1.  Fail-open totality: whenever analyzePageContent has returned from  *)
(* a failure mode (provider or apiKey unset, no active goal, rate-limited, *)
(* cache key not computable, unknown provider, the provider call           *)
(* rejecting, the timeout firing first, a response without a valid         *)
(* confidence), its result has shouldBlock = false and confidence = 0.     *)
(* The call always returns: every exit of Analyze, ProviderRespond,        *)
(* ProviderError and ProviderTimeout is a Return.                          *)
(***************************************************************************)
FailureMode(p) ==
  \/ ~Configured(procs[p].cur)
  \/ ActiveGoals(procs[p].goals) = <<>>
  \/ procs[p].path \in {"config", "nogoals", "limited", "btoa", "unknown",
                        "rejected", "timeout"}
  \/ procs[p].path = "text" /\ parseConfidenceScore(procs[p].text) = NoScore

C1_FailOpenTotality ==
  \A p \in Procs : Returned(p) /\ FailureMode(p) => FailOpen(procs[p].result)

\* the timeout fired first, and the call returned the fail-open result
C1_Witness ==
  \E p \in Procs :
    /\ Returned(p)
    /\ procs[p].path = "timeout"
    /\ procs[p].result.error = "Request timeout"
    /\ FailOpen(procs[p].result)

(***************************************************************************)
(* C2.  A response to ANALYZE_PAGE has shouldBlock = true only when the    *)
(* provider's answer won the race, parsed to a confidence in 0..100 and    *)
(* that confidence reaches the threshold of the settings the analysis ran  *)
(* with, or when it replays a cached result that was produced that way;    *)
(* every other way out of handlePageAnalysis responds shouldBlock = false. *)
(***************************************************************************)
ProducedOnSuccess(result, madeWith) ==
  /\ result.reasoning = "AI confidence"
  /\ result.confidence \in 0..MAX_SCORE
  /\ result.shouldBlock <=> result.confidence >= madeWith

C2_BlockOnlyOnSuccess ==
  /\ \A k \in DOMAIN cache : ProducedOnSuccess(cache[k].result, cache[k].madeWith)
  /\ sent.kind # "none" /\ sent.payload.shouldBlock =>
       /\ sent.kind = "ANALYSIS_RESULT"
       /\ sent.via \in {"text", "hit"}
       /\ ProducedOnSuccess(sent.payload, sent.madeWith)
       /\ sent.via = "text" =>
            parseConfidenceScore(sent.text) = sent.payload.confidence
  /\ sent.kind # "none" /\ sent.via \notin {"text", "hit"} =>
       ~sent.payload.shouldBlock

\* a cache hit replays a blocking result although the threshold has been
\* raised above its confidence since
C2_Witness ==
  /\ sent.kind = "ANALYSIS_RESULT"
  /\ sent.via = "hit"
  /\ sent.payload.shouldBlock
  /\ sent.payload.confidence = 75
  /\ sent.madeWith = DEFAULT_THRESHOLD
  /\ storeSettings.confidenceThreshold = 90

(***************************************************************************)
(* C3.  Threshold boundary: for a confidence c and a threshold t in        *)
(* 0..100 the freshly computed result has shouldBlock = true iff c >= t;   *)
(* c = t blocks, c = t - 1 does not.                                       *)
(***************************************************************************)
C3_ThresholdBoundary ==
  fnIn.fn = "result" =>
    LET c == fnIn.confidence
        t == fnIn.settings.confidenceThreshold
        blocks == fnOut.result.shouldBlock
    IN  /\ fnOut.result.confidence = c
        /\ c < t => ~blocks
        /\ c = t - 1 => ~blocks
        /\ c = t => blocks
        /\ c > t => blocks

\* the boundary itself: confidence 75 against threshold 75 blocks
C3_Witness ==
  /\ fnIn.fn = "result"
  /\ fnIn.confidence = DEFAULT_THRESHOLD
  /\ fnIn.settings.confidenceThreshold = DEFAULT_THRESHOLD
  /\ fnOut.result.shouldBlock

(***************************************************************************)
(* C4.  At most one provider call per (tabId, url) is in flight at any     *)
(* time.                                                                   *)
(***************************************************************************)
InFlight(tab, url) ==
  {p \in Procs : procs[p].pc = "fetch" /\ procs[p].tab = tab /\ procs[p].url = url}

C4_OneCallInFlight ==
  \A page \in env.pages : Cardinality(InFlight(page.tab, page.url)) <= 1

(***************************************************************************)
(* C5.  The pending set never leaks: every key in it belongs to an         *)
(* invocation of handlePageAnalysis still under way for that pair, so with *)
(* no invocation under way the set is empty; and a trigger that arrives    *)
(* then is not dropped as a duplicate.                                     *)
(***************************************************************************)
PendingHasOwner ==
  \A key \in pendingAnalyses :
    \E p \in Procs : Busy(p) /\ PendingKey(procs[p].tab, procs[p].url) = key

AdmittedWhenIdle ==
  (/\ \A q \in Procs : ~Busy(q)
   /\ budget'.triggers < budget.triggers
   /\ bgSettings.enabled)
  => \E p \in Procs :
       /\ procs'[p].pc = "read"
       /\ pendingAnalyses' = {PendingKey(procs'[p].tab, procs'[p].url)}

C5_PendingNeverLeaks ==
  /\ [](PendingHasOwner /\ ((\A q \in Procs : ~Busy(q)) => pendingAnalyses = {}))
  /\ [][AdmittedWhenIdle]_vars

\* an analysis ended in a thrown storage error, nothing is under way, and
\* the set is empty
C5_Witness ==
  /\ sent.kind = "ANALYSIS_RESULT"
  /\ sent.via = "storage"
  /\ \A q \in Procs : ~Busy(q)
  /\ pendingAnalyses = {}

(***************************************************************************)
(* C6.  Rate-limit short circuit: when a configured analysis with an       *)
(* active goal finds isRateLimited(settings) true, analyzePageContent      *)
(* returns confidence 0 and shouldBlock false, issues no provider request  *)
(* and leaves the cache as it was.                                         *)
(***************************************************************************)
C6_RateLimitShortCircuit ==
  [][\A p \in Procs :
       (/\ AnalyzeStep(p)
        /\ Configured(procs[p].cur)
        /\ ActiveGoals(procs[p].goals) # <<>>
        /\ isRateLimited(procs[p].cur, now))
       => /\ procs'[p].pc = "anaGet"
          /\ FailOpen(procs'[p].result)
          /\ cache' = cache]_vars

\* an analysis was rate-limited while the cache held an entry
C6_Witness ==
  \E p \in Procs :
    /\ Returned(p)
    /\ procs[p].path = "limited"
    /\ procs[p].result.reasoning = "Rate limit exceeded"
    /\ DOMAIN cache # {}

(***************************************************************************)
(* C7.  isRateLimited(settings) at time now is true iff                    *)
(* now - lastRequestTime < 60000 / requestsPerMinute, strictly: with       *)
(* requestsPerMinute = 20 an elapsed time of 2999 ms is limited and        *)
(* 3000 ms is not; an elapsed time equal to the interval is not limited;   *)
(* a missing lastRequestTime counts as 0.  (For a positive rpm and whole   *)
(* milliseconds, elapsed < 60000 / rpm iff elapsed <= (60000 - 1) div rpm.)*)
(***************************************************************************)
C7_StrictInterval ==
  fnIn.fn = "isRateLimited" =>
    LET last == fnIn.settings.rateLimit.lastRequestTime
        rpm == fnIn.settings.rateLimit.requestsPerMinute
        elapsed == IF last = NoTime THEN fnIn.now ELSE fnIn.now - last
    IN  /\ fnOut.limited <=> elapsed <= (MINUTE_MS - 1) \div rpm
        /\ rpm = 20 /\ elapsed = 2999 => fnOut.limited
        /\ rpm = 20 /\ elapsed = 3000 => ~fnOut.limited
        /\ MINUTE_MS % rpm = 0 /\ elapsed = MINUTE_MS \div rpm => ~fnOut.limited

\* no lastRequestTime, 20 requests per minute, 2999 ms on the clock: limited
C7_Witness ==
  /\ fnIn.fn = "isRateLimited"
  /\ fnIn.settings.rateLimit.lastRequestTime = NoTime
  /\ fnIn.settings.rateLimit.requestsPerMinute = 20
  /\ fnIn.now = 2999
  /\ fnOut.limited

(***************************************************************************)
(* C8, as the code has it.  The setSettings call that stores the           *)
(* rate-limit stamp has completed before the attempt's provider request    *)
(* is issued; and an analysis whose settings snapshot holds a stamp T      *)
(* written by another analysis, and whose rate-limit check inside          *)
(* analyzePageContent runs less than 60000 / requestsPerMinute ms after T, *)
(* is rate-limited and issues no provider request.                         *)
(***************************************************************************)
WithinInterval(settings, t) ==
  (t - settings.rateLimit.lastRequestTime) * settings.rateLimit.requestsPerMinute
    < MINUTE_MS

C8_StampBeforeRequest ==
  /\ [](\A p \in Procs : procs[p].pc = "fetch" => procs[p].wrote)
  /\ [][\A q \in Procs :
          (/\ AnalyzeStep(q)
           /\ Configured(procs[q].cur)
           /\ ActiveGoals(procs[q].goals) # <<>>
           /\ procs[q].cur.rateLimit.lastRequestTime > 0
           /\ WithinInterval(procs[q].cur, now))
          => /\ procs'[q].pc = "anaGet"
             /\ procs'[q].path = "limited"
             /\ FailOpen(procs'[q].result)]_vars

\* one request is in flight, its stamp stored; another analysis read that
\* stamp and was rate-limited
C8_Witness ==
  \E p, q \in Procs :
    /\ procs[p].pc = "fetch"
    /\ procs[p].wrote
    /\ Returned(q)
    /\ procs[q].path = "limited"
    /\ procs[q].cur.rateLimit.lastRequestTime = procs[p].stamp

(***************************************************************************)
(* C8, as the claim has it: an analysis that read the settings after       *)
(* another analysis's stamp T was stored, less than                        *)
(* 60000 / requestsPerMinute ms after T, issues no provider request.       *)
(***************************************************************************)
C8_ReadWithinIntervalIsLimited ==
  \A q \in Procs :
    (/\ procs[q].cur.rateLimit.lastRequestTime > 0
     /\ WithinInterval(procs[q].cur, procs[q].stamp))
    => procs[q].pc # "fetch"

(***************************************************************************)
(* C9, as the code has it.  The settings an analysis attempt stores are    *)
(* the snapshot its getSettings returned with rateLimit.lastRequestTime    *)
(* replaced by the stamp: every other field is written back with the       *)
(* snapshot's value, so it keeps its stored value exactly when no other    *)
(* write changed it between the attempt's read and its write.              *)
(***************************************************************************)
UserFields == {"enabled", "confidenceThreshold", "provider", "model", "apiKey"}

SameUserFields(a, b) ==
  /\ \A f \in UserFields : a[f] = b[f]
  /\ a.rateLimit.requestsPerMinute = b.rateLimit.requestsPerMinute

Quiescent ==
  /\ \A p \in Procs : ~Busy(p)
  /\ opt.timer = NoUpdates
  /\ opt.save.pc = "idle"

C10_CacheHit ==
  [][\A p \in Procs :
       (/\ AnalyzeStep(p)
        /\ Configured(procs[p].cur)
        /\ ActiveGoals(procs[p].goals) # <<>>
        /\ ~isRateLimited(procs[p].cur, now)
        /\ ~CacheKeyThrows(LocationHref, procs[p].content,
                           ActiveGoals(procs[p].goals))
        /\ KeyOf(p) \in DOMAIN cache
        /\ now - cache[KeyOf(p)].timestamp < CACHE_DURATION)
       => /\ procs'[p].pc = "anaGet"
          /\ procs'[p].result = cache[KeyOf(p)].result
          /\ cache' = cache]_vars

\* a hit returned a result stored earlier under a lower threshold, with the
\* verdict and the duration it was stored with
C10_Witness ==
  \E p \in Procs :
    /\ Returned(p)
    /\ procs[p].path = "hit"
    /\ KeyOf(p) \in DOMAIN cache
    /\ procs[p].result = cache[KeyOf(p)].result
    /\ cache[KeyOf(p)].timestamp < now
    /\ procs[p].result.shouldBlock
    /\ procs[p].result.confidence < procs[p].cur.confidenceThreshold

(***************************************************************************)
(* C11, as the code has it.  Idempotence: when the cache holds the result  *)
(* of an earlier call with the same page, content and active goals, made   *)
(* under the same provider, model and threshold, less than CACHE_DURATION  *)
(* old, and the call is configured and not rate-limited, the call returns  *)
(* that result as it was stored, duration included, and issues no provider *)
(* request.                                                                *)
(***************************************************************************)
\* the cache entries an earlier call with p's arguments and settings stored
EarlierCalls(p) ==
  {k \in DOMAIN cache :
     /\ cache[k].url = procs[p].url
     /\ cache[k].content = procs[p].content
     /\ cache[k].goals = ActiveGoals(procs[p].goals)
     /\ cache[k].result.provider = procs[p].cur.provider
     /\ cache[k].result.model = procs[p].cur.model
     /\ cache[k].madeWith = procs[p].cur.confidenceThreshold
     /\ now - cache[k].timestamp < CACHE_DURATION}

Expired(entry, t) == t - entry.timestamp >= CACHE_DURATION

LooksUp(p) ==
  /\ AnalyzeStep(p)
  /\ Configured(procs[p].cur)
  /\ ActiveGoals(procs[p].goals) # <<>>
  /\ ~isRateLimited(procs[p].cur, now)
  /\ ~CacheKeyThrows(LocationHref, procs[p].content, ActiveGoals(procs[p].goals))
  /\ KeyOf(p) \in DOMAIN cache

C12_CacheExpiry ==
  /\ [][\A p \in Procs :
          LooksUp(p) =>
            IF Expired(cache[KeyOf(p)], now)
            THEN /\ KeyOf(p) \notin DOMAIN cache'
                 /\ procs'[p].path # "hit"
                 /\ procs[p].cur.provider \in KnownProviders
                      => procs'[p].pc = "fetch"
            ELSE /\ procs'[p].path = "hit"
                 /\ procs'[p].result = cache[KeyOf(p)].result]_vars
  /\ [][sent'.via = "getCacheStats" =>
          /\ \A k \in DOMAIN cache' : ~Expired(cache'[k], now')
          /\ \A k \in DOMAIN cache :
               ~Expired(cache[k], now) => k \in DOMAIN cache' /\ cache'[k] = cache[k]]_vars

\* an analysis came an hour after an earlier one had stored its result,
\* found the cache without a valid entry and is awaiting the provider
C12_Witness ==
  \E p \in Procs :
    /\ procs[p].pc = "fetch"
    /\ procs[p].start >= StartTime + CACHE_DURATION
    /\ storeAnalytics.totalRequests >= 1
    /\ storeAnalytics.blockedPages >= 1
    /\ budget.changes = CacheChanges
    /\ DOMAIN cache = {}

(***************************************************************************)
(* C13.  Goal-change invalidation: an analysis that starts after a change  *)
(* of the stored goals, the change delivered to the storage listener and   *)
(* the cache cleared, is not answered from the cache with a result that    *)
(* was computed for another set of active goals.                           *)
(***************************************************************************)
C13_NoStaleGoals ==
  \A p \in Procs :
    (/\ Returned(p)
     /\ procs[p].path = "hit"
     /\ procs[p].began.heard
     /\ procs[p].began.goals = procs[p].goals
     /\ KeyOf(p) \in DOMAIN cache)
    => cache[KeyOf(p)].goals = ActiveGoals(procs[p].goals)

(***************************************************************************)
(* C14.  Cache-key fingerprint: generateCacheKey gives, for one url and    *)
(* content, different keys to goal lists whose texts differ, whatever the  *)
(* url and the length of the content.                                      *)
(***************************************************************************)
C14_GoalsReachKey ==
  (/\ fnIn.fn = "generateCacheKey"
   /\ JoinTexts(fnIn.goals) # JoinTexts(fnIn.others))
  => fnOut.key # fnOut.otherKey

(***************************************************************************)
(* C15.  Cache isolation by url: a result is returned from the cache only  *)
(* to a request whose payload url is the payload url of the request that   *)
(* stored it.                                                              *)
(***************************************************************************)
C15_HitHasStoredUrl ==
  \A p \in Procs :
    (/\ Returned(p)
     /\ procs[p].path = "hit"
     /\ KeyOf(p) \in DOMAIN cache)
    => cache[KeyOf(p)].url = procs[p].url

(***************************************************************************)
(* C16.  Cache switch: an analysis whose settings have enableCache = false *)
(* is not answered from the cache and stores nothing in it.                *)
(***************************************************************************)
CacheOff(settings) ==
  "enableCache" \in DOMAIN settings /\ ~settings.enableCache

C16_CacheSwitchedOff ==
  [][\A p \in Procs :
       (/\ CacheOff(procs[p].cur)
        /\ procs[p].pc \in {"analyze", "fetch"}
        /\ procs'[p].pc # procs[p].pc)
       => /\ procs'[p].path # "hit"
          /\ cache' = cache]_vars

(***************************************************************************)
(* C17.  Not configured: when settings.provider or settings.apiKey is      *)
(* empty, analyzePageContent returns confidence 0 and shouldBlock false    *)
(* (the fail-open result of 'LLM provider not configured'), issues no      *)
(* provider request and leaves the cache as it was, whatever the goals,    *)
(* the rate-limit state and the cache hold.                                *)
(***************************************************************************)
C17_NotConfigured ==
  [][\A p \in Procs :
       (AnalyzeStep(p) /\ ~Configured(procs[p].cur))
       => /\ procs'[p].pc = "anaGet"
          /\ procs'[p].path = "config"
          /\ FailOpen(procs'[p].result)
          /\ procs'[p].result.error = "LLM provider not configured"
          /\ cache' = cache]_vars

\* the API key was removed after a result had been cached: the next analysis,
\* with an active goal and an unexpired entry under its key, is not answered
\* from the cache
C17_Witness ==
  \E p \in Procs :
    /\ Returned(p)
    /\ procs[p].path = "config"
    /\ procs[p].cur.apiKey = ""
    /\ ActiveGoals(procs[p].goals) # <<>>
    /\ KeyOf(p) \in DOMAIN cache
    /\ now - cache[KeyOf(p)].timestamp < CACHE_DURATION
    /\ cache[KeyOf(p)].result.shouldBlock
    /\ FailOpen(procs[p].result)

(***************************************************************************)
(* C18.  No active goals: when a configured analysis is called with an     *)
(* empty list of active goals (nothing stored, or every stored goal        *)
(* inactive), analyzePageContent returns confidence 0 and shouldBlock      *)
(* false with reasoning 'No goals configured' and no error field, issues   *)
(* no provider request and leaves the cache as it was.                     *)
(***************************************************************************)
C18_NoActiveGoals ==
  [][\A p \in Procs :
       (/\ AnalyzeStep(p)
        /\ Configured(procs[p].cur)
        /\ ActiveGoals(procs[p].goals) = <<>>)
       => /\ procs'[p].pc = "anaGet"
          /\ procs'[p].path = "nogoals"
          /\ procs'[p].result = PlainResult("No goals configured")
          /\ procs'[p].result.error = Undefined
          /\ cache' = cache]_vars

\* the only stored goal is inactive and the cache holds an unexpired blocking
\* result under the analysis's key: the analysis allows the page
C18_Witness ==
  \E p \in Procs :
    /\ Returned(p)
    /\ procs[p].path = "nogoals"
    /\ procs[p].goals = <<GoalH>>
    /\ Configured(procs[p].cur)
    /\ KeyOf(p) \in DOMAIN cache
    /\ now - cache[KeyOf(p)].timestamp < CACHE_DURATION
    /\ cache[KeyOf(p)].result.shouldBlock
    /\ procs[p].result.error = Undefined
    /\ ~procs[p].result.shouldBlock

(***************************************************************************)
(* C18, as the claim has it: whenever the list of active goals is empty    *)
(* the result carries no error field.                                      *)
(***************************************************************************)
C18_NeverAnError ==
  [][\A p \in Procs :
       (AnalyzeStep(p) /\ ActiveGoals(procs[p].goals) = <<>>)
       => /\ FailOpen(procs'[p].result)
          /\ procs'[p].result.error = Undefined
          /\ cache' = cache]_vars

(***************************************************************************)
(* C19.  Timeout: every analysis that has dispatched its provider request  *)
(* gets out of the race, also when the provider never answers.  When the   *)
(* timer fires first, TIMEOUT ms or more after the dispatch,               *)
(* analyzePageContent returns the fail-open result with error              *)
(* 'Request timeout'; when the provider settles first, the result is made  *)
(* from its answer or its rejection.                                       *)
(***************************************************************************)
LeavesRace(p) == procs[p].pc = "fetch" /\ procs'[p].pc # "fetch"

FromAnswer(p, text) ==
  IF parseConfidenceScore(text) = NoScore
  THEN FailOpenResult("Invalid confidence score in response")
  ELSE SuccessResult(parseConfidenceScore(text), procs[p].cur,
                     now - procs[p].start)

C19_TimeoutSettles ==
  /\ \A p \in Procs : (procs[p].pc = "fetch") ~> Returned(p)
  /\ [][\A p \in Procs :
          LeavesRace(p) =>
            /\ procs'[p].pc = "anaGet"
            /\ procs'[p].path \in {"timeout", "text", "rejected"}
            /\ procs'[p].path = "timeout" =>
                 /\ procs'[p].result = FailOpenResult("Request timeout")
                 /\ now' - procs[p].start >= TIMEOUT
            /\ procs'[p].path = "text" =>
                 procs'[p].result = FromAnswer(p, procs'[p].text)
            /\ procs'[p].path = "rejected" =>
                 \E message \in env.errors :
                   procs'[p].result = FailOpenResult(message)]_vars

\* the provider had not answered 10 s after the dispatch: the timer fired,
\* the call returned 'Request timeout' and the request is still under way
C19_Witness ==
  \E p \in Procs :
    /\ Returned(p)
    /\ procs[p].path = "timeout"
    /\ procs[p].result = FailOpenResult("Request timeout")
    /\ now - procs[p].start = TIMEOUT
    /\ orphans > 0

(***************************************************************************)
(* C20.  A provider response that arrives after the timeout has won the    *)
(* race is discarded: the step in which it arrives stores nothing in the   *)
(* cache, sends no response, changes no analytics counter and no           *)
(* invocation; and the result analyzePageContent returned on the timeout   *)
(* stays as it was returned.                                               *)
(***************************************************************************)
LateArrival == orphans' < orphans

C20_LateResponseDiscarded ==
  /\ [][LateArrival =>
          /\ cache' = cache
          /\ sent'.kind = "none"
          /\ storeAnalytics' = storeAnalytics
          /\ pendingAnalyses' = pendingAnalyses
          /\ procs' = procs]_vars
  /\ [][\A p \in Procs :
          (Returned(p) /\ procs[p].path = "timeout" /\ procs'[p].pc # "idle")
          => procs'[p].result = FailOpenResult("Request timeout")]_vars

\* the late answer has arrived while the timed-out analysis was still
\* updating the analytics: its result is the timeout's, the cache is empty
C20_Witness ==
  \E p \in Procs :
    /\ Returned(p)
    /\ procs[p].path = "timeout"
    /\ orphans = 0
    /\ procs[p].result = FailOpenResult("Request timeout")
    /\ DOMAIN cache = {}

(***************************************************************************)
(* C21.  Parse failure is a hard failure: when parseConfidenceScore gives  *)
(* null for the provider's text (empty, no digits, first number above      *)
(* 100), analyzePageContent returns the fail-open result with error        *)
(* 'Invalid confidence score in response' and shouldBlock false, no        *)
(* confidence is put in place of the missing one, and the cache is left    *)
(* as it was.                                                              *)
(***************************************************************************)
C21_ParseFailureFailsOpen ==
  [][\A p \in Procs :
       (/\ LeavesRace(p)
        /\ procs'[p].path = "text"
        /\ parseConfidenceScore(procs'[p].text) = NoScore)
       => /\ procs'[p].result =
               FailOpenResult("Invalid confidence score in response")
          /\ FailOpen(procs'[p].result)
          /\ procs'[p].result.reasoning # "AI confidence"
          /\ cache' = cache]_vars

\* the provider answered with the empty text: the analysis failed open and
\* the cache holds nothing
C21_Witness ==
  \E p \in Procs :
    /\ Returned(p)
    /\ procs[p].path = "text"
    /\ procs[p].text = <<>>
    /\ procs[p].result.error = "Invalid confidence score in response"
    /\ ~procs[p].result.shouldBlock
    /\ DOMAIN cache = {}

(***************************************************************************)
(* C22.  parseConfidenceScore gives the value of the first run of decimal  *)
(* digits of the response when that value is in 0..100, and null           *)
(* otherwise: for a value that is not a string, the empty string, a text   *)
(* without digits, a first run above 100.  'The score is 83.' gives 83,    *)
(* 'N/A' null, '150' null.                                                 *)
(***************************************************************************)
IsDigit(s, i) == s[i] \in 48..57

\* where the first run of digits of s starts and ends
RunStart(s) == CHOOSE i \in 1..Len(s) :
                 IsDigit(s, i) /\ \A j \in 1..(i - 1) : ~IsDigit(s, j)

RunEnd(s) == CHOOSE j \in RunStart(s)..Len(s) :
               /\ \A k \in RunStart(s)..j : IsDigit(s, k)
               /\ j = Len(s) \/ ~IsDigit(s, j + 1)

\* the number written by the digits s[a..b]
RECURSIVE DecimalValue(_, _, _)
DecimalValue(s, a, b) ==
  IF a > b THEN 0 ELSE (s[b] - 48) + 10 * DecimalValue(s, a, b - 1)

ExpectedScore(value) ==
  IF ~value.isString THEN NoScore
  ELSE IF \A i \in 1..Len(value.text) : ~IsDigit(value.text, i) THEN NoScore
  ELSE LET n == DecimalValue(value.text, RunStart(value.text),
                              RunEnd(value.text))
       IN  IF n \in 0..MAX_SCORE THEN n ELSE NoScore

C22_FirstDigitRun ==
  fnIn.fn = "parseConfidenceScore" =>
    /\ fnOut.score = ExpectedScore(fnIn.response)
    /\ fnOut.score \in (0..MAX_SCORE) \cup {NoScore}
    /\ fnIn.response.text = TextScore83 => fnOut.score = 83
    /\ fnIn.response.text = <<78, 47, 65>> => fnOut.score = NoScore
    /\ fnIn.response.text = Answer150 => fnOut.score = NoScore

\* 'The score is 83.' was parsed to 83
C22_Witness ==
  /\ fnIn.fn = "parseConfidenceScore"
  /\ fnIn.response.isString
  /\ fnIn.response.text = TextScore83
  /\ fnOut.score = 83

(***************************************************************************)
(* C23.  Statistics reset: when OptionsController.resetStatistics          *)
(* completes, the stored totalRequests, blockedPages and bypassedPages are *)
(* all 0.                                                                  *)
(***************************************************************************)
C23_ResetStoresZeros ==
  [][(stats.reset.pc = "set" /\ stats'.reset.pc = "idle")
       => storeAnalytics' = ZeroAnalytics]_vars

(***************************************************************************)
(* C24.  Analytics counting: when every analysis and bypass has run to     *)
(* completion and no reset was made, the stored totalRequests is the       *)
(* number of analyses analyzePageContent returned a result to, and         *)
(* blockedPages the number of those with shouldBlock = true; and           *)
(* blockedPages <= totalRequests always.                                   *)
(***************************************************************************)
AllDone ==
  /\ \A p \in Procs : ~Busy(p)
  /\ stats.bypass.pc = "idle"
  /\ stats.reset.pc = "idle"

C24_CountsMatch ==
  /\ (AllDone /\ stats.resets = 0) =>
       /\ storeAnalytics.totalRequests = stats.returned
       /\ storeAnalytics.blockedPages = stats.blocking
  /\ stats.resets = 0 /\ stats.reset.pc = "idle" =>
       storeAnalytics.blockedPages <= storeAnalytics.totalRequests

(***************************************************************************)
(* C25.  Goal limit: after any sequence of addGoal, removeGoal and         *)
(* importData calls the stored goal list holds at most 10 goals, each with *)
(* a non-empty text of at most 200 characters.                             *)
(***************************************************************************)
C25_GoalsWithinLimits ==
  /\ Len(storeGoals) <= MAX_GOALS_COUNT
  /\ \A i \in 1..Len(storeGoals) :
       /\ storeGoals[i].text # <<>>
       /\ Len(storeGoals[i].text) <= MAX_GOAL_LENGTH

(***************************************************************************)
(* C26, as the code has it.  API key across backup: exportData always      *)
(* yields settings with apiKey = ''; importData never stores the apiKey    *)
(* of the imported data: the settings it stores carry the apiKey its       *)
(* setSettings call read (the default '' if that read failed), so the      *)
(* stored key is unchanged when the read succeeded and no other write      *)
(* changed the key between the read and the write.                         *)
(***************************************************************************)
ImportWrites(c) ==
  /\ ops.calls[c].fn = "importData"
  /\ ops.calls[c].pc = "write"
  /\ ops'.calls[c].pc = "idle"
  /\ ops'.calls[c].outcome = "returned"

MessageHandled == budget'.triggers < budget.triggers

C27_DisabledIsAnswered ==
  [][MessageHandled /\ ~storeSettings.enabled /\ sent'.via # "notab"
       => /\ sent'.kind = "ANALYSIS_RESULT"
          /\ sent'.payload = PlainResult("Extension disabled")
          /\ \A p \in Procs : procs[p].pc = "idle" => procs'[p].pc = "idle"]_vars

(***************************************************************************)
(* C28.  Options-page persistence: once the debounce timer has fired and   *)
(* the write has completed (no timer pending, no save under way), the      *)
(* stored settings hold, for every field the user changed on the options   *)
(* page, the value last entered.                                           *)
(***************************************************************************)
C28_AllChangesStored ==
  opt.timer = NoUpdates /\ opt.save.pc = "idle"
    => \A field \in DOMAIN ops.asked : storeSettings[field] = ops.asked[field]

(***************************************************************************)
(* C29.  HTTP error propagation: when handleResponse has run on a response *)
(* whose status is not 2xx, the provider call is rejected with the message *)
(* `HTTP <status>: <body>` of that response; analyzePageContent returns    *)
(* the fail-open result whose error is that message, does not block, and   *)
(* leaves the cache as it was.  Responses that differ in status or body    *)
(* give different messages.                                                *)
(***************************************************************************)
HttpFailures == {response \in HttpResponses : ~HttpOk(response)}

C29_HttpErrorFailsOpen ==
  /\ [][\A p \in Procs :
          (/\ LeavesRace(p)
           /\ procs'[p].path # "timeout"
           /\ procs[p].http # NoHttp
           /\ ~HttpOk(procs[p].http))
          => /\ procs'[p].path = "rejected"
             /\ procs'[p].result =
                  FailOpenResult(HttpErrorMessage(procs[p].http.status,
                                                  procs[p].http.body))
             /\ FailOpen(procs'[p].result)
             /\ cache' = cache]_vars
  /\ \A r1, r2 \in HttpFailures :
       handleResponse(r1).threw
         /\ (handleResponse(r1).message = handleResponse(r2).message => r1 = r2)

\* the provider answered 500 'overloaded': the analysis failed open with
\* that status and body in its error, and the cache holds nothing
C29_Witness ==
  \E p \in Procs :
    /\ Returned(p)
    /\ procs[p].path = "rejected"
    /\ procs[p].http.status = 500
    /\ procs[p].result.error = "HTTP 500: overloaded"
    /\ ~procs[p].result.shouldBlock
    /\ DOMAIN cache = {}

(***************************************************************************)
(* C30.  Credential check: LLMClient.validateCredentials never throws; it  *)
(* gives success = true exactly when provider and apiKey are given, the    *)
(* provider is known and its credential request completed with a 2xx       *)
(* status; every other call (provider or apiKey missing, unknown provider, *)
(* request failed at network level, status not 2xx) gives success = false  *)
(* with an error.                                                          *)
(***************************************************************************)
RequestCompleted2xx ==
  /\ fnIn.provider \in KnownProviders
  /\ fnIn.apiKey # ""
  /\ ~fnIn.fetched.failed
  /\ fnIn.fetched.status >= 200
  /\ fnIn.fetched.status < 300

C30_CredentialCheck ==
  fnIn.fn = "validateCredentials"
    => /\ ~fnOut.validation.threw
       /\ fnOut.validation.success <=> RequestCompleted2xx
       /\ ~fnOut.validation.success
            => fnOut.validation.error \notin {Undefined, ""}

\* a known provider and a key, the request answered 401: no success, with
\* an error
C30_Witness ==
  /\ fnIn.fn = "validateCredentials"
  /\ fnIn.provider = "openrouter"
  /\ fnIn.apiKey = "sk-or-key"
  /\ fnIn.fetched = [failed |-> FALSE, status |-> 401]
  /\ ~fnOut.validation.success
  /\ fnOut.validation.error = "Invalid API credentials"

(***************************************************************************)
(* C31.  Content truncation: with N the whitespace-normalized text,        *)
(* cleanTextContent gives N when N has at most MAX_CONTENT_LENGTH (4000)   *)
(* units.  Otherwise it gives a prefix of N followed by '...': the first   *)
(* 4000 units, or, when those hold a space at an index (from 0) above      *)
(* 3200, the units before the last such space.  The value never has more   *)
(* than 4003 units, and when such a space exists the kept prefix ends      *)
(* where a word ends.                                                      *)
(***************************************************************************)
Normalized(value) ==
  IF value.isString THEN Trim(CollapseWhitespace(value.text)) ELSE <<>>

\* the indexes (from 0) above 80% of the limit at which the first
\* MAX_CONTENT_LENGTH units of s hold a space
BoundarySpaces(s) ==
  {k \in 3201..(MAX_CONTENT_LENGTH - 1) : k < Len(s) /\ s[k + 1] = Space}

IsPrefix(a, b) == Len(a) <= Len(b) /\ a = SubSeq(b, 1, Len(a))

C31_ContentTruncation ==
  fnIn.fn = "cleanTextContent"
    => LET N == Normalized(fnIn.raw)
           out == fnOut.cleaned
           kept == SubSeq(out, 1, Len(out) - 3)
       IN  /\ Len(out) <= MAX_CONTENT_LENGTH + 3
           /\ Len(N) <= MAX_CONTENT_LENGTH => out = N
           /\ Len(N) > MAX_CONTENT_LENGTH =>
                /\ SubSeq(out, Len(out) - 2, Len(out)) = Ellipsis
                /\ IsPrefix(kept, N)
                /\ BoundarySpaces(N) = {} => Len(kept) = MAX_CONTENT_LENGTH
                /\ BoundarySpaces(N) # {} =>
                     /\ Len(kept) \in BoundarySpaces(N)
                     /\ \A k \in BoundarySpaces(N) : k <= Len(kept)
                     /\ kept[Len(kept)] # Space

\* a text of 10,000 units with a space at every seventh: cut before the
\* space at index 3996, 3999 units with the marker
C31_Witness ==
  /\ fnIn.fn = "cleanTextContent"
  /\ Len(fnIn.raw.text) = LongLength
  /\ BoundarySpaces(Normalized(fnIn.raw)) # {}
  /\ Len(fnOut.cleaned) = 3999
  /\ fnOut.cleaned[3996] = 119
  /\ fnOut.cleaned[3997] = 46

(***************************************************************************)
(* C32.  Every result analyzePageContent returns with shouldBlock = true   *)
(* has a confidence of at least the confidenceThreshold stored when it is  *)
(* returned, results served from the cache included.                       *)
(***************************************************************************)
AnalysisReturns(p) ==
  procs[p].pc \in {"analyze", "fetch"} /\ procs'[p].pc = "anaGet"

C32_BlockMeetsStoredThreshold ==
  [][\A p \in Procs :
       AnalysisReturns(p) /\ procs'[p].result.shouldBlock
         => procs'[p].result.confidence >= storeSettings'.confidenceThreshold]_vars

(***************************************************************************)
(* C33.  Rate-limiter recovery: an ANALYZE_PAGE message that arrives at    *)
(* least 60000/requestsPerMinute ms after the latest provider request was  *)
(* issued is not answered 'Rate limit exceeded', whatever messages were    *)
(* handled in between.                                                     *)
(***************************************************************************)
C33_RecoversAfterInterval ==
  [][\A p \in Procs :
       (/\ AnalyzeStep(p)
        /\ stats.issued # NoTime
        /\ (stats.arrived - stats.issued)
              * procs[p].cur.rateLimit.requestsPerMinute >= MINUTE_MS)
       => procs'[p].path # "limited"]_vars

(***************************************************************************)
(* C34.  An attempt is not rate-limited by its own stamp: the rate-limit   *)
(* decision of analyzePageContent is taken on the lastRequestTime the      *)
(* attempt read from the store, not on the one it then wrote.  A           *)
(* configured attempt with active goals whose read lastRequestTime lies    *)
(* at least 60000/requestsPerMinute ms back goes on to the cache lookup    *)
(* and the provider.                                                       *)
(***************************************************************************)
ReadIsStale(p) ==
  (now - OrZero(procs[p].cur.rateLimit.lastRequestTime))
     * procs[p].cur.rateLimit.requestsPerMinute >= MINUTE_MS

C34_OwnStampDoesNotLimit ==
  [][\A p \in Procs :
       (/\ AnalyzeStep(p)
        /\ Configured(procs[p].cur)
        /\ ActiveGoals(procs[p].goals) # <<>>)
       => /\ procs'[p].path = "limited" <=> isRateLimited(procs[p].cur, now)
          /\ ReadIsStale(p) => procs'[p].path # "limited"]_vars

\* an attempt has stored its stamp, which is less than the interval back, and
\* its request is with the provider
C34_Witness ==
  \E p \in Procs :
    /\ procs[p].pc = "fetch"
    /\ procs[p].wrote
    /\ storeSettings.rateLimit.lastRequestTime = procs[p].stamp
    /\ isRateLimited(storeSettings, now)
    /\ procs[p].cur.rateLimit.lastRequestTime # procs[p].stamp

(***************************************************************************)
(* C35.  A blocked page stays blocked on re-analysis: when an analysis of  *)
(* a page returned shouldBlock = true, a re-analysis of the same url,      *)
(* content and active goals under the same threshold, less than            *)
(* CACHE_DURATION later, returns shouldBlock = true as well.               *)
(***************************************************************************)
BlockedBefore(p) ==
  /\ KeyOf(p) \in DOMAIN cache
  /\ LET entry == cache[KeyOf(p)] IN
       /\ entry.result.shouldBlock
       /\ now - entry.timestamp < CACHE_DURATION
       /\ entry.url = procs[p].url
       /\ entry.content = procs[p].content
       /\ entry.goals = ActiveGoals(procs[p].goals)
       /\ entry.madeWith = procs[p].cur.confidenceThreshold

C35_BlockedStaysBlocked ==
  [][\A p \in Procs :
       AnalysisReturns(p) /\ BlockedBefore(p)
         => procs'[p].result.shouldBlock]_vars

(***************************************************************************)
(* C36.  Every ANALYZE_PAGE message is answered: an invocation of          *)
(* handlePageAnalysis never ends without its sendResponse call, be it an   *)
(* analysis result, a fail-open result or an error object.                 *)
(***************************************************************************)
\* the step taken ends an invocation: one that began in it or earlier
InvocationEnds ==
  /\ sent'.kind # "none"
  /\ \E p \in Procs :
       (MessageHandled \/ procs[p].pc # "idle") /\ procs'[p].pc = "idle"

C36_EveryMessageAnswered ==
  [][InvocationEnds
       => sent'.kind \in {"ANALYSIS_RESULT", "error"} /\ sent'.payload # NoResult]_vars

(***************************************************************************)
(* C37.  The stored rateLimit.lastRequestTime never decreases, whatever    *)
(* analysis attempts and options-page writes interleave.                   *)
(***************************************************************************)
C37_LastRequestTimeMonotone ==
  [][OrZero(storeSettings'.rateLimit.lastRequestTime)
       >= OrZero(storeSettings.rateLimit.lastRequestTime)]_vars

(***************************************************************************)
(* C38.  Re-enabling takes effect in the Firefox background service: an    *)
(* ANALYZE_PAGE message from a tab, handled while the stored settings have *)
(* enabled = true, is not answered 'Extension disabled'.                   *)
(***************************************************************************)
C38_EnabledIsAnalysed ==
  [][MessageHandled /\ storeSettings.enabled => sent'.via # "disabled"]_vars

\* C39: isBlocked is true exactly when the overlay has replaced the page
\* body; a blocking result while the page is blocked leaves the saved
\* content as it is; a step that unblocks the page leaves the body with
\* exactly the markup it had when it was blocked, no overlay, and isBlocked
\* false; and no step taken while isBlocked is true sends ANALYZE_PAGE.
OverlayReplacesBody == contentAnalyzer.body.overlay /\ contentAnalyzer.body.html = EmptyPage
C39_BlockState ==
  /\ [](contentAnalyzer.isBlocked <=> OverlayReplacesBody)
  /\ [][/\ (contentAnalyzer.isBlocked /\ contentAnalyzer'.isBlocked =>
              contentAnalyzer'.originalPageContent = contentAnalyzer.originalPageContent)
        /\ (contentAnalyzer.isBlocked /\ ~contentAnalyzer'.isBlocked =>
              contentAnalyzer'.body = Body(contentAnalyzer.shown, FALSE))
        /\ (contentAnalyzer.isBlocked => contentAnalyzer'.requests = contentAnalyzer.requests)]_vars
C39_Witness ==
  /\ ~contentAnalyzer.isBlocked
  /\ contentAnalyzer.shown = "<p>video</p>"
  /\ contentAnalyzer.body = Body("<p>video</p>", FALSE)
  /\ contentAnalyzer.bypasses > 0
  /\ contentAnalyzer.timers = 0
  /\ contentAnalyzer.requests > 0
  /\ contentAnalyzer.events = TabEvents
====
